---- MODULE Spec2Model ----
(***************************************************************************)
(* Learning and knowledge-coordination layer of the deployment factory:    *)
(*   - PatternLearningSystem        (factory/factory_config.py)            *)
(*   - ContinuousImprovementEngine  (factory/factory_config.py)            *)
(*   - InterAgentLearningCoordinator                                       *)
(*                          (factory/inter_agent_learning_system.py)       *)
(*                                                                         *)
(* Python values that may be of any type (dictionary entries supplied by   *)
(* a caller) are tagged records [t, s, n]: t is the Python type, s the     *)
(* characters of a str, n the value of a number or bool.  A str is a       *)
(* sequence of one-character strings so that strip() and concatenation     *)
(* are computed, not assumed.                                              *)
(***************************************************************************)
EXTENDS Integers, Sequences, FiniteSets, TLC

VARIABLES
    \* PatternLearningSystem
    error_database,        \* dict error_type -> list of entries (failures)
    success_patterns,      \* dict error_type -> list of entries (successes)
    performance_metrics,   \* dict "<error_type>_success|_failure" -> deque
    pl_seq,                \* number of entries stored so far (insertion stamp)
    pl_call,               \* last PatternLearningSystem call and its result
    \* ContinuousImprovementEngine
    optimization_suggestions,  \* the suggestion backlog (list)
    applied_improvements,      \* the applied-log (list)
    performance_history,       \* len(performance_history)
    improvement_log,           \* len(improvement_log)
    ci_call,                   \* last engine call and its result
    \* InterAgentLearningCoordinator
    agent_profiles,        \* dict agent_id -> AgentProfile
    agent_order,           \* the keys of agent_profiles in insertion order
    learning_experiences,  \* deque of experience dicts
    knowledge_transfers,   \* the transfers; transfer_id is the position
    collaboration_network, \* defaultdict agent_id -> list of agent ids
    learning_metrics,      \* the counters
    co_call,               \* last coordinator call observed and its result
    co_now,                \* the instant datetime.now() returns to the coordinator, in days
    co_tasks,              \* the share_learning_experience coroutines running as tasks
    \* FactoryOrchestrator
    memory_store,          \* None until initialize(), then the keys of MockMemoryStore.memories
    current_stage,         \* position of current_stage in the stage list, 0 for None
    fo_pc,                 \* the stage the running run_pipeline call executes next, 0 when none runs
    fo_executed,           \* the stages the running or last call executed, with their outcomes
    fo_result              \* the result the last call returned

plVars == <<error_database, success_patterns, performance_metrics, pl_seq, pl_call>>
ciVars == <<optimization_suggestions, applied_improvements, performance_history,
            improvement_log, ci_call>>
coVars == <<agent_profiles, agent_order, learning_experiences, knowledge_transfers,
            collaboration_network, learning_metrics, co_call, co_now, co_tasks>>
foVars == <<memory_store, current_stage, fo_pc, fo_executed, fo_result>>
vars == <<plVars, ciVars, coVars, foVars>>

----------------------------------------------------------------------------
(* Python values *)

PyStr(cs) == [t |-> "str", s |-> cs, n |-> 0]
PyNum(i) == [t |-> "num", s |-> <<>>, n |-> i]
PyBool(b) == [t |-> "bool", s |-> <<>>, n |-> IF b THEN 1 ELSE 0]
PyNone == [t |-> "none", s |-> <<>>, n |-> 0]
\* the key is not in the dictionary
Absent == [t |-> "absent", s |-> <<>>, n |-> 0]

\* bool(x) of a Python value
Truthy(x) ==
    CASE x.t = "str" -> x.s # <<>>
      [] x.t = "num" -> x.n # 0
      [] x.t = "bool" -> x.n = 1
      [] OTHER -> FALSE

\* d.get(key): a missing key reads as None
DictGet(x) == IF x.t = "absent" THEN PyNone ELSE x

RECURSIVE LStrip(_)
LStrip(cs) == IF cs # <<>> /\ Head(cs) = " " THEN LStrip(Tail(cs)) ELSE cs

RECURSIVE RStrip(_)
RStrip(cs) ==
    IF cs # <<>> /\ cs[Len(cs)] = " " THEN RStrip(SubSeq(cs, 1, Len(cs) - 1)) ELSE cs

\* str.strip()
Strip(cs) == RStrip(LStrip(cs))

\* dict.get(k, []) on a dictionary of lists
ListGet(d, k) == IF k \in DOMAIN d THEN d[k] ELSE <<>>

\* d[k] = v on a dictionary modelled as a function
DictSet(d, k, v) == [x \in DOMAIN d \cup {k} |-> IF x = k THEN v ELSE d[x]]

\* deque(maxlen=m).append(x)
DequeAppend(q, x, m) ==
    IF Len(q) >= m THEN Append(Tail(q), x) ELSE Append(q, x)

Min(a, b) == IF a <= b THEN a ELSE b
Max(a, b) == IF a >= b THEN a ELSE b

----------------------------------------------------------------------------
(* PatternLearningSystem *)

max_patterns_per_error == 50
\* min_success_rate = 0.7, in tenths
min_success_rate == 7
\* deque(maxlen=100) of performance_metrics
metrics_maxlen == 100
\* the instant datetime.now() returns, in days
Now == 100
\* timedelta(days=30)
RecencyDays == 30

Unknown == PyStr(<<"u", "n", "k", "n", "o", "w", "n">>)

\* the f-string suffix of the performance_metrics key
MetricKey(error_type, success) ==
    error_type \o (IF success THEN <<"_", "s", "u", "c", "c", "e", "s", "s">>
                              ELSE <<"_", "f", "a", "i", "l", "u", "r", "e">>)

\* _store_success_pattern / _store_error_pattern on one of the two dictionaries
StorePattern(db, error_type, entry) ==
    LET cur == ListGet(db, error_type)
        kept == IF Len(cur) >= max_patterns_per_error THEN Tail(cur) ELSE cur
    IN DictSet(db, error_type, Append(kept, entry))

ValidUnstripped(d) ==
    /\ d.success.t = "bool"
    /\ d.error_type.t = "str"
    /\ d.error_type.s # <<>>

\* the validation block of learn_from_deployment: TRUE when the data is accepted
ValidDeployment(d) ==
    /\ d.error_type.t # "absent"
    /\ d.success.t # "absent"
    /\ d.success.t = "bool"
    /\ d.error_type.t = "str"
    /\ Strip(d.error_type.s) # <<>>

LearningEntry(d, stamp) ==
    [solution |-> DictGet(d.solution),
     success |-> (d.success.n = 1),
     timestamp |-> IF d.timestamp.t = "absent" THEN Now ELSE d.timestamp.n,
     execution_time |-> DictGet(d.execution_time),
     seq |-> stamp]

PlCall(op, arg, ret) == [op |-> op, arg |-> arg, ret |-> ret]

\* the argument record of a call that passes only an error type
KeyOnly(error_type) ==
    [error_type |-> PyStr(error_type), solution |-> Absent, success |-> Absent,
     timestamp |-> Absent, execution_time |-> Absent]

learn_from_deployment(d) ==
    IF ~ValidDeployment(d)
    THEN /\ pl_call' = PlCall("learn_from_deployment", d, PyBool(FALSE))
         /\ UNCHANGED <<error_database, success_patterns, performance_metrics, pl_seq>>
    ELSE LET key == d.error_type.s
             ok == (d.success.n = 1)
             entry == LearningEntry(d, pl_seq + 1)
         IN /\ pl_seq' = pl_seq + 1
            /\ IF ok
               THEN /\ success_patterns' = StorePattern(success_patterns, key, entry)
                    /\ UNCHANGED error_database
               ELSE /\ error_database' = StorePattern(error_database, key, entry)
                    /\ UNCHANGED success_patterns
            /\ IF d.execution_time.t # "absent"
               THEN performance_metrics' =
                        DictSet(performance_metrics, MetricKey(key, ok),
                                DequeAppend(ListGet(performance_metrics, MetricKey(key, ok)),
                                            d.execution_time, metrics_maxlen))
               ELSE UNCHANGED performance_metrics
            /\ pl_call' = PlCall("learn_from_deployment", d, PyBool(TRUE))

\* one stats record per solution, in dictionary (first-occurrence) order
NewStats(solution) ==
    [solution |-> solution, count |-> 0, success_count |-> 0,
     total_execution_time |-> 0, recent_count |-> 0]

StatsIndex(acc, solution) ==
    IF \E i \in 1..Len(acc) : acc[i].solution = solution
    THEN CHOOSE i \in 1..Len(acc) : acc[i].solution = solution
    ELSE 0

AddPattern(st, p) ==
    [st EXCEPT !.count = @ + 1,
               !.success_count = IF p.success THEN @ + 1 ELSE @,
               !.total_execution_time =
                   IF Truthy(p.execution_time) THEN @ + p.execution_time.n ELSE @,
               !.recent_count = IF p.timestamp > Now - RecencyDays THEN @ + 1 ELSE @]

RECURSIVE StatsFold(_, _)
StatsFold(patterns, acc) ==
    IF patterns = <<>> THEN acc
    ELSE LET p == Head(patterns)
         IN IF ~Truthy(p.solution) \/ p.solution = Unknown
            THEN StatsFold(Tail(patterns), acc)
            ELSE LET i == StatsIndex(acc, p.solution)
                 IN IF i = 0
                    THEN StatsFold(Tail(patterns), Append(acc, AddPattern(NewStats(p.solution), p)))
                    ELSE StatsFold(Tail(patterns), [acc EXCEPT ![i] = AddPattern(@, p)])

_calculate_solution_stats(patterns) == StatsFold(patterns, <<>>)

\* composite_score * 36000 * count, an integer:
\*   0.6 * sc/c + 0.3 * rc/c + 0.1 * max(0, 1 - (tot/c)/3600)
ScoreNum(st) ==
    21600 * st.success_count + 10800 * Min(st.recent_count, st.count)
        + Max(0, 3600 * st.count - st.total_execution_time)

\* score(a) > score(b), by cross-multiplication (counts are positive)
ScoreGreater(a, b) == ScoreNum(a) * b.count > ScoreNum(b) * a.count

\* the best of the solutions that reach min_success_rate, if there is one
BestOfReliable(stats) ==
    LET ok(i) == 10 * stats[i].success_count >= min_success_rate * stats[i].count
        pool == IF \E i \in 1..Len(stats) : ok(i)
                THEN {i \in 1..Len(stats) : ok(i)} ELSE 1..Len(stats)
    IN IF stats = <<>> THEN 0
       ELSE CHOOSE i \in pool :
               \A j \in pool : ~ScoreGreater(stats[j], stats[i]) /\ (j < i => ScoreGreater(stats[i], stats[j]))

\* sort(key=score, reverse=True)[0]: the sort is stable, so of the entries
\* with the highest score the one first in dictionary order comes first
_select_best_solution(stats) ==
    IF stats = <<>> THEN 0
    ELSE CHOOSE i \in 1..Len(stats) :
            /\ \A j \in 1..Len(stats) : ~ScoreGreater(stats[j], stats[i])
            /\ \A j \in 1..(i - 1) : ScoreGreater(stats[i], stats[j])

suggest_solution(error_type) ==
    IF error_type \notin DOMAIN error_database /\ error_type \notin DOMAIN success_patterns
    THEN PyNone
    ELSE LET all_patterns == ListGet(error_database, error_type)
                                \o ListGet(success_patterns, error_type)
         IN IF all_patterns = <<>> THEN PyNone
            ELSE LET stats == _calculate_solution_stats(all_patterns)
                     b == _select_best_solution(stats)
                 IN IF b # 0 /\ 10 * stats[b].success_count >= min_success_rate * stats[b].count
                    THEN stats[b].solution
                    ELSE PyNone

\* sum(stats['count'] for stats in solution_stats.values())
RECURSIVE SumCount(_)
SumCount(stats) == IF stats = <<>> THEN 0 ELSE Head(stats).count + SumCount(Tail(stats))

\* sum(stats['success_count'] for stats in solution_stats.values())
RECURSIVE SumSuccessCount(_)
SumSuccessCount(stats) ==
    IF stats = <<>> THEN 0 ELSE Head(stats).success_count + SumSuccessCount(Tail(stats))

\* sum(len(patterns) for patterns in db.values()), over the keys ks
RECURSIVE TotalLen(_, _)
TotalLen(db, ks) ==
    IF ks = {} THEN 0
    ELSE LET k == CHOOSE x \in ks : TRUE
         IN Len(db[k]) + TotalLen(db, ks \ {k})

\* the sum of stats['count'] over the statistics of each list of db
RECURSIVE TotalCount(_, _)
TotalCount(db, ks) ==
    IF ks = {} THEN 0
    ELSE LET k == CHOOSE x \in ks : TRUE
         IN SumCount(_calculate_solution_stats(db[k])) + TotalCount(db, ks \ {k})

\* the sum of stats['success_count'] over the statistics of each list of db
RECURSIVE TotalSuccessCount(_, _)
TotalSuccessCount(db, ks) ==
    IF ks = {} THEN 0
    ELSE LET k == CHOOSE x \in ks : TRUE
         IN SumSuccessCount(_calculate_solution_stats(db[k]))
                + TotalSuccessCount(db, ks \ {k})

\* the float n / d, kept exact
Quotient(n, d) == [num |-> n, den |-> d]
\* the float 0.0
ZeroRate == Quotient(0, 1)

LearningStats(rate) ==
    [total_error_patterns |-> TotalLen(error_database, DOMAIN error_database),
     total_success_patterns |-> TotalLen(success_patterns, DOMAIN success_patterns),
     unique_error_types |-> Cardinality(DOMAIN error_database),
     average_success_rate |-> rate,
     performance_metrics_count |->
         [k \in DOMAIN performance_metrics |-> Len(performance_metrics[k])]]

\* the mean over the keys of each key's own success rate
MeanOfKeyRates ==
    LET Attempts(k) ==
            SumCount(_calculate_solution_stats(ListGet(error_database, k)))
                + SumCount(_calculate_solution_stats(ListGet(success_patterns, k)))
        Successes(k) ==
            SumSuccessCount(_calculate_solution_stats(ListGet(error_database, k)))
                + SumSuccessCount(_calculate_solution_stats(ListGet(success_patterns, k)))
        keys == {k \in DOMAIN error_database \cup DOMAIN success_patterns : Attempts(k) > 0}
        RECURSIVE SumRates(_)
        SumRates(ks) ==
            IF ks = {} THEN ZeroRate
            ELSE LET k == CHOOSE x \in ks : TRUE
                     r == SumRates(ks \ {k})
                 IN Quotient(r.num * Attempts(k) + Successes(k) * r.den, r.den * Attempts(k))
    IN LearningStats(IF keys = {} THEN ZeroRate
                     ELSE Quotient(SumRates(keys).num, SumRates(keys).den * Cardinality(keys)))

get_learning_stats ==
    LET total_errors == TotalLen(error_database, DOMAIN error_database)
        total_successes == TotalLen(success_patterns, DOMAIN success_patterns)
        total_attempts ==
            TotalCount(error_database, DOMAIN error_database)
                + TotalCount(success_patterns, DOMAIN success_patterns)
        total_successes_count ==
            TotalSuccessCount(error_database, DOMAIN error_database)
                + TotalSuccessCount(success_patterns, DOMAIN success_patterns)
    IN LearningStats(IF total_errors + total_successes > 0 /\ total_attempts > 0
                     THEN Quotient(total_successes_count, total_attempts)
                     ELSE ZeroRate)

GetLearningStats ==
    /\ pl_call' = PlCall("get_learning_stats", KeyOnly(<<>>), get_learning_stats)
    /\ UNCHANGED <<error_database, success_patterns, performance_metrics, pl_seq>>

\* a lookup by self.error_database[error_type], which a defaultdict answers
\* by creating the entry
SuggestSolutionIndexed(error_type) ==
    /\ pl_call' = PlCall("suggest_solution", KeyOnly(error_type), suggest_solution(error_type))
    /\ error_database' = DictSet(error_database, error_type, ListGet(error_database, error_type))
    /\ UNCHANGED <<success_patterns, performance_metrics, pl_seq>>

SuggestSolution(error_type) ==
    /\ pl_call' = PlCall("suggest_solution", KeyOnly(error_type), suggest_solution(error_type))
    /\ UNCHANGED <<error_database, success_patterns, performance_metrics, pl_seq>>

----------------------------------------------------------------------------
(* ContinuousImprovementEngine *)

\* low_risk_suggestions[:5]
improvements_per_cycle == 5
\* applied_improvements keeps the last 100
applied_cap == 100
\* memory_mb > 500
memory_threshold == 500
\* avg_response > 30
response_threshold == 30
\* error_rate > 0.1, in percent
error_threshold == 10
\* len(optimization_suggestions) > 10
cleanup_threshold == 10

OptimizationType == {"memory", "performance", "reliability", "security"}

Suggestion(type, title, risk, confidence, metric) ==
    [type |-> type, title |-> title, risk_level |-> risk, confidence |-> confidence,
     metrics |-> metric]

IsLowOrMedium(s) == s.risk_level \in {"low", "medium"}

\* s.get('risk_level') == RiskLevel.LOW
IsLowRisk(s) == s.risk_level = "low"

RECURSIVE LowRiskSuggestions(_)
\* [s for s in list if s.get('risk_level') == RiskLevel.LOW]
LowRiskSuggestions(list) ==
    IF list = <<>> THEN <<>>
    ELSE IF IsLowRisk(Head(list)) THEN <<Head(list)>> \o LowRiskSuggestions(Tail(list))
         ELSE LowRiskSuggestions(Tail(list))

\* x in list
InList(list, x) == \E i \in 1..Len(list) : list[i] = x

\* list.remove(x): drops the first element equal to x
ListRemove(list, x) ==
    LET i == CHOOSE j \in 1..Len(list) : list[j] = x /\ \A h \in 1..(j - 1) : list[h] # x
    IN SubSeq(list, 1, i - 1) \o SubSeq(list, i + 1, Len(list))

\* list[:n]
Prefix(list, n) == SubSeq(list, 1, Min(n, Len(list)))

\* list[-n:]
Suffix(list, n) == SubSeq(list, Max(1, Len(list) - n + 1), Len(list))

GeneratedFromTen(metrics, backlog) ==
    (IF metrics.memory_usage.t = "num" /\ metrics.memory_usage.n > memory_threshold
     THEN <<Suggestion("memory", "High Memory Usage Detected", "medium", 8,
                       metrics.memory_usage.n)>>
     ELSE <<>>)
    \o
    (IF metrics.response_times.t = "num" /\ metrics.response_times.n > response_threshold
     THEN <<Suggestion("performance", "Slow Response Times", "low", 7,
                       metrics.response_times.n)>>
     ELSE <<>>)
    \o
    (IF metrics.error_rates.t = "num" /\ metrics.error_rates.n > error_threshold
     THEN <<Suggestion("reliability", "High Error Rate", "high", 9,
                       metrics.error_rates.n)>>
     ELSE <<>>)
    \o
    (IF Len(backlog) >= cleanup_threshold
     THEN <<Suggestion("memory", "Suggestion Cleanup", "low", 6, Len(backlog))>>
     ELSE <<>>)

\* the suggestions generate_optimization_suggestions builds for the metrics
GeneratedSuggestions(metrics, backlog) ==
    (IF metrics.memory_usage.t = "num" /\ metrics.memory_usage.n > memory_threshold
     THEN <<Suggestion("memory", "High Memory Usage Detected", "medium", 8,
                       metrics.memory_usage.n)>>
     ELSE <<>>)
    \o
    (IF metrics.response_times.t = "num" /\ metrics.response_times.n > response_threshold
     THEN <<Suggestion("performance", "Slow Response Times", "low", 7,
                       metrics.response_times.n)>>
     ELSE <<>>)
    \o
    (IF metrics.error_rates.t = "num" /\ metrics.error_rates.n > error_threshold
     THEN <<Suggestion("reliability", "High Error Rate", "high", 9,
                       metrics.error_rates.n)>>
     ELSE <<>>)
    \o
    (IF Len(backlog) > cleanup_threshold
     THEN <<Suggestion("memory", "Suggestion Cleanup", "low", 6, Len(backlog))>>
     ELSE <<>>)

CiCall(op, suggestions, implemented, failed, details) ==
    [op |-> op, suggestions |-> suggestions, implemented |-> implemented,
     skipped |-> 0, failed |-> failed, details |-> details]

generate_optimization_suggestions(metrics) ==
    LET suggestions == GeneratedSuggestions(metrics, optimization_suggestions)
    IN /\ optimization_suggestions' = optimization_suggestions \o suggestions
       /\ ci_call' = CiCall("generate_optimization_suggestions", suggestions, 0, 0, <<>>)
       /\ UNCHANGED <<applied_improvements, performance_history, improvement_log>>

\* the engine state a cycle of implement_improvements works on
EngineState ==
    [backlog |-> optimization_suggestions, applied |-> applied_improvements,
     history |-> performance_history, log |-> improvement_log,
     implemented |-> 0, failed |-> 0, details |-> <<>>]

\* _apply_memory_optimization: trims the history or the log, returns True
_apply_memory_optimization(st) ==
    IF st.history > 800 THEN [st EXCEPT !.history = 500]
    ELSE IF st.log > 100 THEN [st EXCEPT !.log = 50]
    ELSE st

\* apply_improvement: the returned flag and the engine state it leaves
apply_improvement(st, s) ==
    IF s.type \notin OptimizationType THEN [ok |-> FALSE, st |-> st]
    ELSE IF s.type = "memory" THEN [ok |-> TRUE, st |-> _apply_memory_optimization(st)]
    ELSE [ok |-> TRUE, st |-> st]

\* log_improvement
log_improvement(applied, s) ==
    LET log_entry == [title |-> s.title, type |-> s.type, risk_level |-> s.risk_level,
                      confidence |-> s.confidence, status |-> "applied"]
        appended == Append(applied, log_entry)
    IN IF Len(appended) > applied_cap THEN Suffix(appended, applied_cap) ELSE appended

\* the title of a suggestion dict that has no 'title' key
NoTitle == "<no title>"

Detail(s, ok) == [title |-> s.title, success |-> ok, risk_level |-> s.risk_level]

\* the entry the except branch of the loop appends
ErrorDetail(s) ==
    [title |-> IF s.title = NoTitle THEN "unknown" ELSE s.title, success |-> FALSE,
     risk_level |-> s.risk_level]

\* results['details'].append({'title': suggestion['title'], ...}): a dict without
\* title raises KeyError, and the except branch counts a failure
RecordDetail(st, s, ok) ==
    IF s.title = NoTitle
    THEN [st EXCEPT !.failed = @ + 1, !.details = Append(@, ErrorDetail(s))]
    ELSE [st EXCEPT !.details = Append(@, Detail(s, ok))]

\* one iteration of the loop over low_risk_suggestions[:5]
ImplementOne(st, s) ==
    LET r == apply_improvement(st, s)
    IN IF r.ok
       THEN LET logged == [r.st EXCEPT !.implemented = @ + 1,
                                        !.applied = log_improvement(@, s)]
            IN IF InList(logged.backlog, s)
               THEN RecordDetail([logged EXCEPT !.backlog = ListRemove(@, s)], s, TRUE)
               \* list.remove raises ValueError: the except branch counts a failure
               ELSE [logged EXCEPT !.failed = @ + 1,
                                   !.details = Append(@, ErrorDetail(s))]
       ELSE RecordDetail([r.st EXCEPT !.failed = @ + 1], s, FALSE)

RECURSIVE ImplementLoop(_, _)
\* the state an iteration leaves is a value before the next iteration starts
ImplementLoop(st, batch) ==
    IF batch = <<>> THEN st
    ELSE CHOOSE last \in {ImplementLoop(next, Tail(batch)) :
                              next \in {ImplementOne(st, Head(batch))}} : TRUE

RECURSIVE RemoveProcessed(_, _)
\* the loop "Remove processed suggestions"
RemoveProcessed(backlog, processed) ==
    IF processed = <<>> THEN backlog
    ELSE CHOOSE last \in {RemoveProcessed(next, Tail(processed)) :
                              next \in {IF InList(backlog, Head(processed))
                                         THEN ListRemove(backlog, Head(processed))
                                         ELSE backlog}} : TRUE

implement_improvements ==
    \E low_risk_suggestions \in {LowRiskSuggestions(optimization_suggestions)} :
    \E st \in {ImplementLoop(EngineState, Prefix(low_risk_suggestions, improvements_per_cycle))} :
       /\ optimization_suggestions' =
              RemoveProcessed(st.backlog, Prefix(low_risk_suggestions, st.implemented))
       /\ applied_improvements' = st.applied
       /\ performance_history' = st.history
       /\ improvement_log' = st.log
       /\ ci_call' = CiCall("implement_improvements", <<>>, st.implemented, st.failed,
                            st.details)

----------------------------------------------------------------------------
(* InterAgentLearningCoordinator *)
(* Floats are fixed-point numbers with three decimals: 1.0 is One; a      *)
(* product or quotient is rounded down to the next thousandth.             *)

One == 1000
\* reputation_score=0.5 of a new profile
initial_reputation == 500
\* alpha = 0.3, in tenths
alpha == 3
\* reputation_boost * 0.1, as a divisor
reputation_step == 10
\* experience.confidence > 0.8 makes a specialization
specialization_confidence == 800
\* exp['confidence'] > 0.7 qualifies an experience for a transfer
transfer_confidence == 700
\* reputation_score + 0.05 for receiving knowledge
transfer_reputation == 50
\* relevant_agents[:5]
relevant_limit == 5
\* relevant_experiences[-3:]
content_limit == 3
\* deque(maxlen=10000)
experiences_maxlen == 10000

\* the coordinator's fields as one value
Coordinator ==
    [agent_profiles |-> agent_profiles, agent_order |-> agent_order,
     learning_experiences |-> learning_experiences,
     knowledge_transfers |-> knowledge_transfers,
     collaboration_network |-> collaboration_network,
     learning_metrics |-> learning_metrics]

AgentProfile(capabilities) ==
    [capabilities |-> capabilities, experience_count |-> 0, success_rate |-> 0,
     average_confidence |-> 0, specializations |-> <<>>, last_active |-> co_now,
     reputation_score |-> initial_reputation]

\* context is the set of capability names that occur in str(context).lower()
LearningExperience(agent_id, learning_type, capability, context, success, confidence) ==
    [agent_id |-> agent_id, learning_type |-> learning_type, capability |-> capability,
     context |-> context, success |-> success, confidence |-> confidence]

KnowledgeTransfer(from_agent, to_agent, knowledge_type, content, confidence) ==
    [from_agent |-> from_agent, to_agent |-> to_agent, knowledge_type |-> knowledge_type,
     content |-> content, confidence |-> confidence, status |-> "pending"]

\* item not in list, then list.append(item)
AppendNew(list, item) == IF InList(list, item) THEN list ELSE Append(list, item)

Unclamped(x) == x

\* min(1.0, max(0.0, x))
Clamp(x) == Min(One, Max(0, x))

RegisterKeepsExisting(co, agent_id, capabilities) ==
    IF agent_id \in DOMAIN co.agent_profiles THEN co
    ELSE [co EXCEPT !.agent_profiles = DictSet(@, agent_id, AgentProfile(capabilities)),
                    !.agent_order = AppendNew(@, agent_id)]

register_agent(co, agent_id, capabilities) ==
    [co EXCEPT !.agent_profiles = DictSet(@, agent_id, AgentProfile(capabilities)),
               !.agent_order = AppendNew(@, agent_id)]

\* _update_agent_profile on the profile of a registered agent
UpdatedProfile(profile, experience) ==
    LET n == profile.experience_count + 1
        outcome == IF experience.success THEN One ELSE 0
        rate == IF n = 1 THEN outcome
                ELSE ((10 - alpha) * profile.success_rate + alpha * outcome) \div 10
        conf == IF n = 1 THEN experience.confidence
                ELSE ((10 - alpha) * profile.average_confidence
                        + alpha * experience.confidence) \div 10
        \* reputation_boost = confidence * (1.0 or -0.5), then * 0.1
        boost2 == IF experience.success THEN 2 * experience.confidence
                  ELSE -experience.confidence
        reputation == Clamp((2 * reputation_step * profile.reputation_score + boost2)
                                \div (2 * reputation_step))
    IN [profile EXCEPT
            !.experience_count = n,
            !.last_active = co_now,
            !.success_rate = rate,
            !.average_confidence = conf,
            !.reputation_score = reputation,
            !.specializations =
                IF experience.success /\ experience.confidence > specialization_confidence
                THEN AppendNew(@, experience.capability) ELSE @]

_update_agent_profile(profiles, agent_id, experience) ==
    IF agent_id \notin DOMAIN profiles THEN profiles
    ELSE [profiles EXCEPT ![agent_id] = UpdatedProfile(@, experience)]

IsRelevant(co, agent_id, experience) ==
    LET profile == co.agent_profiles[agent_id]
    IN \/ InList(profile.capabilities, experience.capability)
       \/ \E i \in 1..Len(profile.specializations) :
              profile.specializations[i] \in experience.context
       \/ InList(ListGet(co.collaboration_network, agent_id), experience.agent_id)

RECURSIVE RelevantFold(_, _, _)
RelevantFold(co, order, experience) ==
    IF order = <<>> THEN <<>>
    ELSE IF Head(order) # experience.agent_id /\ IsRelevant(co, Head(order), experience)
         THEN <<Head(order)>> \o RelevantFold(co, Tail(order), experience)
         ELSE RelevantFold(co, Tail(order), experience)

_find_relevant_agents(co, experience) ==
    Prefix(RelevantFold(co, co.agent_order, experience), relevant_limit)

RECURSIVE CreateTransfers(_, _, _)
\* the loop of share_learning_experience over relevant_agents
CreateTransfers(co, relevant, experience) ==
    IF relevant = <<>> THEN co
    ELSE LET to == Head(relevant)
             transfer == KnowledgeTransfer(experience.agent_id, to, experience.capability,
                                           <<experience>>, experience.confidence)
             next == [co EXCEPT
                        !.knowledge_transfers = Append(@, transfer),
                        !.collaboration_network =
                            DictSet(@, experience.agent_id,
                                    Append(ListGet(@, experience.agent_id), to))]
         IN CreateTransfers(IF to # experience.agent_id THEN next ELSE co,
                            Tail(relevant), experience)

\* share_learning_experience: the coordinator it leaves (it returns True)
share_learning_experience(co, experience) ==
    LET appended == [co EXCEPT !.learning_experiences =
                                    DequeAppend(@, experience, experiences_maxlen)]
        updated == [appended EXCEPT !.agent_profiles =
                                        _update_agent_profile(@, experience.agent_id, experience)]
        shared == CreateTransfers(updated, _find_relevant_agents(updated, experience),
                                  experience)
    IN [shared EXCEPT !.learning_metrics.total_experiences = @ + 1,
                      !.learning_metrics.knowledge_base_size = Len(shared.learning_experiences)]

RECURSIVE AtThreshold(_, _, _)
AtThreshold(experiences, from_agent, capability) ==
    IF experiences = <<>> THEN <<>>
    ELSE LET e == Head(experiences)
             rest == AtThreshold(Tail(experiences), from_agent, capability)
         IN IF /\ e.agent_id = from_agent
               /\ e.capability = capability
               /\ e.success
               /\ e.confidence >= transfer_confidence
            THEN <<e>> \o rest ELSE rest

RECURSIVE RelevantExperiences(_, _, _)
\* the experiences request_knowledge_transfer selects
RelevantExperiences(experiences, from_agent, capability) ==
    IF experiences = <<>> THEN <<>>
    ELSE LET e == Head(experiences)
             rest == RelevantExperiences(Tail(experiences), from_agent, capability)
         IN IF /\ e.agent_id = from_agent
               /\ e.capability = capability
               /\ e.success
               /\ e.confidence > transfer_confidence
            THEN <<e>> \o rest ELSE rest

RECURSIVE SumConfidence(_)
SumConfidence(experiences) ==
    IF experiences = <<>> THEN 0
    ELSE Head(experiences).confidence + SumConfidence(Tail(experiences))

\* an experience whose outcome is None instead of a dict: the one case in
\* which the model keeps the outcome
WithoutOutcome(experience) == experience @@ [outcome |-> "None"]

\* share_learning_experience with its try block: _extract_knowledge_content
\* raises on experience.outcome.get when the outcome is None, which happens in
\* the loop over the relevant agents, after the experience was appended and the
\* profile updated; the except branch returns False
TryShare(co, experience) ==
    LET appended == [co EXCEPT !.learning_experiences =
                                    DequeAppend(@, experience, experiences_maxlen)]
        updated == [appended EXCEPT !.agent_profiles =
                                        _update_agent_profile(@, experience.agent_id, experience)]
    IN IF "outcome" \in DOMAIN experience /\ _find_relevant_agents(updated, experience) # <<>>
       THEN [ret |-> FALSE, co |-> updated]
       ELSE [ret |-> TRUE, co |-> share_learning_experience(co, experience)]

RequestMeanOfContent(co, from_agent, to_agent, capability) ==
    LET relevant == RelevantExperiences(co.learning_experiences, from_agent, capability)
        content == Suffix(relevant, content_limit)
    IN IF relevant = <<>> THEN [ret |-> 0, co |-> co]
       ELSE LET transfer == KnowledgeTransfer(from_agent, to_agent, capability, content,
                                              SumConfidence(content) \div Len(content))
            IN [ret |-> Len(co.knowledge_transfers) + 1,
                co |-> [co EXCEPT
                          !.knowledge_transfers = Append(@, transfer),
                          !.collaboration_network =
                              DictSet(@, from_agent, AppendNew(ListGet(@, from_agent), to_agent))]]

\* request_knowledge_transfer: the returned id (0 for None) and the coordinator
request_knowledge_transfer(co, from_agent, to_agent, capability) ==
    LET relevant == RelevantExperiences(co.learning_experiences, from_agent, capability)
    IN IF relevant = <<>> THEN [ret |-> 0, co |-> co]
       ELSE LET transfer == KnowledgeTransfer(from_agent, to_agent, capability,
                                              Suffix(relevant, content_limit),
                                              SumConfidence(relevant) \div Len(relevant))
            IN [ret |-> Len(co.knowledge_transfers) + 1,
                co |-> [co EXCEPT
                          !.knowledge_transfers = Append(@, transfer),
                          !.collaboration_network =
                              DictSet(@, from_agent, AppendNew(ListGet(@, from_agent), to_agent))]]

ApplyWithoutCap(profiles, transfer) ==
    IF transfer.to_agent \notin DOMAIN profiles THEN profiles
    ELSE [profiles EXCEPT ![transfer.to_agent] =
            [@ EXCEPT !.capabilities = AppendNew(@, transfer.knowledge_type),
                      !.specializations = AppendNew(@, transfer.knowledge_type),
                      !.reputation_score = @ + transfer_reputation]]

ApplyToAbsent(profiles, transfer) ==
    IF transfer.to_agent \notin DOMAIN profiles
    THEN DictSet(profiles, transfer.to_agent, AgentProfile(<<transfer.knowledge_type>>))
    ELSE [profiles EXCEPT ![transfer.to_agent] =
            [@ EXCEPT !.capabilities = AppendNew(@, transfer.knowledge_type),
                      !.specializations = AppendNew(@, transfer.knowledge_type),
                      !.reputation_score = Min(One, @ + transfer_reputation)]]

_apply_knowledge_to_agent(profiles, transfer) ==
    IF transfer.to_agent \notin DOMAIN profiles THEN profiles
    ELSE [profiles EXCEPT ![transfer.to_agent] =
            [@ EXCEPT !.capabilities = AppendNew(@, transfer.knowledge_type),
                      !.specializations = AppendNew(@, transfer.knowledge_type),
                      !.reputation_score = Min(One, @ + transfer_reputation)]]

_learn_from_transfer_success(co, transfer) ==
    share_learning_experience(co,
        LearningExperience(transfer.from_agent, "knowledge_transfer", transfer.knowledge_type,
                           {transfer.knowledge_type}, TRUE, transfer.confidence))

\* the status process_knowledge_transfer stores when accept is True
AcceptedStatus == "accepted"

NotFoundCounted(co) ==
    [ret |-> FALSE, co |-> [co EXCEPT !.learning_metrics.failed_transfers = @ + 1]]

\* transfer_id not in self.knowledge_transfers: return False
TransferNotFound(co) == [ret |-> FALSE, co |-> co]

\* process_knowledge_transfer: the returned flag and the coordinator
process_knowledge_transfer(co, transfer_id, accept) ==
    IF transfer_id \notin 1..Len(co.knowledge_transfers) THEN TransferNotFound(co)
    ELSE IF accept
    THEN LET marked == [co EXCEPT !.knowledge_transfers[transfer_id].status = AcceptedStatus]
             transfer == marked.knowledge_transfers[transfer_id]
             applied == [marked EXCEPT !.agent_profiles =
                                            _apply_knowledge_to_agent(@, transfer)]
             learned == _learn_from_transfer_success(applied, transfer)
         IN [ret |-> TRUE,
             co |-> [learned EXCEPT !.learning_metrics.successful_transfers = @ + 1]]
    ELSE [ret |-> TRUE,
          co |-> [co EXCEPT !.knowledge_transfers[transfer_id].status = "rejected",
                            !.learning_metrics.failed_transfers = @ + 1]]

\* thresholds of get_agent_recommendations and _get_pattern_recommendations
expert_experiences == 2
expert_confidence == 800
pattern_experiences == 3
top_recommendations == 5

\* the agents get_agent_recommendations recommends as experts, in the order of
\* their first experience; every selected experience is a success, so the
\* success rate of a group is 1
ExpertAgents(experiences, agent_id, capability) ==
    LET rel == SelectSeq(experiences,
                         LAMBDA e : /\ e.capability = capability
                                    /\ e.success
                                    /\ e.agent_id # agent_id
                                    /\ e.confidence > transfer_confidence)
        Of(a) == SelectSeq(rel, LAMBDA e : e.agent_id = a)
        firsts == SelectSeq([i \in 1..Len(rel) |-> i],
                            LAMBDA i : \A j \in 1..(i - 1) : rel[j].agent_id # rel[i].agent_id)
        experts == SelectSeq(firsts,
                             LAMBDA i : /\ Len(Of(rel[i].agent_id)) >= expert_experiences
                                        /\ SumConfidence(Of(rel[i].agent_id))
                                              > expert_confidence * Len(Of(rel[i].agent_id)))
    IN [k \in 1..Len(experts) |->
            [type |-> "learn_from_expert", recommended_agent |-> rel[experts[k]].agent_id]]

\* the contexts of the model carry none of the keys task_type, complexity and
\* domain, so every experience is summarised as "General context" and three
\* successes make one pattern; a pattern names no agent
_get_pattern_recommendations(experiences, agent_id, capability) ==
    LET successful_experiences ==
            SelectSeq(experiences, LAMBDA e : e.capability = capability /\ e.success)
    IN IF Len(successful_experiences) >= pattern_experiences
       THEN <<[type |-> "pattern_based"]>> ELSE <<>>

get_agent_recommendations(co, agent_id, capability) ==
    LET recommendations ==
            ExpertAgents(co.learning_experiences, agent_id, capability)
              \o _get_pattern_recommendations(co.learning_experiences, agent_id, capability)
    IN SubSeq(recommendations, 1, IF Len(recommendations) < top_recommendations
                                  THEN Len(recommendations) ELSE top_recommendations)

\* the key request_knowledge reads from the first recommendation
HasAgent(recommendation) == "recommended_agent" \in DOMAIN recommendation

\* LearningEnabledAgent.request_knowledge of an agent whose coordinator is set,
\* called without a target agent; it has no try block, so the KeyError of
\* recommendations[0]['recommended_agent'] reaches the caller
request_knowledge(co, agent_id, capability) ==
    LET recommendations == get_agent_recommendations(co, agent_id, capability)
    IN IF recommendations = <<>> THEN [raised |-> FALSE, ret |-> 0, co |-> co]
       ELSE IF HasAgent(recommendations[1])
            THEN LET r == request_knowledge_transfer(co, recommendations[1].recommended_agent,
                                                     agent_id, capability)
                 IN [raised |-> FALSE, ret |-> r.ret, co |-> r.co]
            ELSE [raised |-> TRUE, ret |-> 0, co |-> co]

\* a coordinator call and the value it returns: a transfer id (0 for None), a
\* flag (1 for True, 0 for False) or a count
CoCall(op, from_agent, to_agent, capability, transfer_id, accept, ret) ==
    [op |-> op, from_agent |-> from_agent, to_agent |-> to_agent,
     capability |-> capability, transfer_id |-> transfer_id, accept |-> accept,
     ret |-> ret]

\* a save whose except branch is missing: the failure of the write propagates
SaveRaises(store_ok) == IF store_ok THEN "saved" ELSE "raised"

\* _save_agent_profiles / _save_learning_data: the write to Redis is attempted
\* and a failure is logged by the except branch
SaveOutcome(store_ok) == IF store_ok THEN "saved" ELSE "logged"

\* the value a handler returns after its save: the except branch of
\* share_learning_experience, request_knowledge_transfer and
\* process_knowledge_transfer turns an exception into False or None (0)
Caught(saved, ret) == IF saved = "raised" THEN 0 ELSE ret

\* a call, the outcome of its save ("none" when it wrote nothing) and whether
\* an exception reached the caller
WithStore(call, saved, raised) == call @@ [saved |-> saved, raised |-> raised]

\* profile.last_active <= cutoff_time
AtCutoff(profile, cutoff_time) == profile.last_active <= cutoff_time

\* profile.last_active < cutoff_time
IsInactive(profile, cutoff_time) == profile.last_active < cutoff_time

\* active_agents holds the registered ids that were not removed: the keys of
\* agent_profiles
cleanup_inactive_agents(co, max_inactive_days) ==
    LET cutoff_time == co_now - max_inactive_days
        inactive_agents ==
            SelectSeq(co.agent_order,
                      LAMBDA agent_id : IsInactive(co.agent_profiles[agent_id], cutoff_time))
        kept == SelectSeq(co.agent_order,
                          LAMBDA agent_id : ~IsInactive(co.agent_profiles[agent_id], cutoff_time))
    IN [ret |-> Len(inactive_agents),
        co |-> [co EXCEPT
                  !.agent_profiles = [agent_id \in {kept[i] : i \in 1..Len(kept)} |-> @[agent_id]],
                  !.agent_order = kept]]

CleanupCall(max_inactive_days, ret) ==
    [op |-> "cleanup_inactive_agents", from_agent |-> "", to_agent |-> "", capability |-> "",
     transfer_id |-> 0, accept |-> FALSE, ret |-> ret, max_inactive_days |-> max_inactive_days]

----------------------------------------------------------------------------
(* FactoryOrchestrator *)

\* the stages list of run_pipeline
stages == <<"coding", "review", "autofix", "first_test", "error_solving", "second_test",
            "validation", "monitoring", "deployment", "reporting">>

PipelineResult(stage, success, data) == [stage |-> stage, success |-> success, data |-> data]

\* no call has returned yet
NoResult == PipelineResult("", FALSE, "none")

\* the loop goes on after a failed result as well
ContinuesUnlessRaised(outcome) ==
    outcome # "raised" /\ memory_store.initialized

\* the loop goes on to the next stage: the stage function returned a successful
\* result and memory_store.store() did not raise (it raises on None)
Continues(outcome) ==
    outcome = "ok" /\ memory_store.initialized

\* initialize(): the memory store is a new MockMemoryStore
Initialize ==
    /\ fo_pc = 0
    /\ memory_store' = [initialized |-> TRUE, memories |-> {}]
    /\ UNCHANGED <<current_stage, fo_pc, fo_executed, fo_result>>

\* one iteration of the loop of run_pipeline, the first one starting a call;
\* the stage function returns a successful result, returns a failed result or
\* raises
ExecuteStage(outcome) ==
    LET i == IF fo_pc = 0 THEN 1 ELSE fo_pc
        executed == IF fo_pc = 0 THEN <<>> ELSE fo_executed
    IN /\ current_stage' = i
       /\ fo_executed' = Append(executed, [stage |-> stages[i], outcome |-> outcome])
       /\ IF Continues(outcome)
          THEN /\ memory_store' = [memory_store EXCEPT !.memories = @ \cup {stages[i]}]
               /\ IF i = Len(stages)
                  THEN /\ fo_result' = PipelineResult("reporting", TRUE, "completed")
                       /\ fo_pc' = 0
                  ELSE /\ fo_result' = NoResult
                       /\ fo_pc' = i + 1
          ELSE /\ fo_result' = PipelineResult(stages[i], FALSE,
                                              IF outcome = "failed" THEN "failed" ELSE "error")
               /\ fo_pc' = 0
               /\ UNCHANGED memory_store

\* a share_learning_experience coroutine wrapped in a task: the experience it
\* was called with, its position, and the coordinator as it was when the task
\* was created
ShareTask(experience, start) == [experience |-> experience, pc |-> "created", start |-> start]

\* what the first segment of a task works on, were the fields read when the
\* task was created
ReadsAtCreation(task) == task.start

\* what the first segment of a task works on: the coordinator's fields as
\* they are when the segment runs
Reads(task) == Coordinator

\* the segment of share_learning_experience up to its first suspension, the
\* await of redis_client.set in _save_learning_data: _update_agent_profile and
\* _find_relevant_agents are coroutines without an await of their own, so the
\* append, the profile update, the transfers and the counters are one segment
FirstSegment(task) == share_learning_experience(Reads(task), task.experience)

\* where a task goes after an await of redis_client.set: to the next write,
\* or, when the write raised, through the except branch of _save_learning_data
\* to the return
AfterSet(pc, store_ok) ==
    IF ~store_ok THEN "returned"
    ELSE IF pc = "set_experiences" THEN "set_transfers" ELSE "returned"

\* the coordinator's fields become co, at one instant, and the tasks become
\* tasks
BecomesWith(co, tasks) ==
    /\ co_now' = co_now
    /\ co_tasks' = tasks
    /\ agent_profiles' = co.agent_profiles
    /\ agent_order' = co.agent_order
    /\ learning_experiences' = co.learning_experiences
    /\ knowledge_transfers' = co.knowledge_transfers
    /\ collaboration_network' = co.collaboration_network
    /\ learning_metrics' = co.learning_metrics

\* a call that is awaited to its end while no task runs a segment
Becomes(co) == BecomesWith(co, co_tasks)

----------------------------------------------------------------------------
(* Inputs of the PatternLearningSystem *)

\* bound on the number of entries stored under the varied inputs
MaxLedger == 3
\* bounds of the long single-key runs: calls, and failures among them
MaxRunCalls == 52
MaxRunFailures == 1

K1 == <<"k">>
K2 == <<" ", "k">>
S1 == PyStr(<<"a">>)
S2 == PyStr(<<"b">>)
OldStamp == PyNum(Now - RecencyDays - 1)

Deployment(k, sol, ok, ts, et) ==
    [error_type |-> k, solution |-> sol, success |-> ok, timestamp |-> ts,
     execution_time |-> et]

\* accepted data: two solutions under K1, each outcome, recent and quick or
\* old and slow
RankInputs ==
    { Deployment(PyStr(K1), sol, PyBool(ok), p[1], p[2]) :
        sol \in {S1, S2}, ok \in BOOLEAN,
        p \in {<<Absent, Absent>>, <<OldStamp, PyNum(7200)>>} }
\* accepted data whose solution is not counted
NoSolutionInputs ==
    { Deployment(PyStr(K1), sol, PyBool(TRUE), Absent, PyNone) :
        sol \in {Absent, PyNone, PyStr(<<>>), Unknown} }
\* accepted data under a second key (stored as given, not stripped)
OtherKeyInputs ==
    { Deployment(PyStr(K2), S1, PyBool(ok), Absent, PyNum(60)) : ok \in BOOLEAN }
\* rejected data: error_type missing, empty, blank or not a str
BadKeyInputs ==
    { Deployment(k, S1, PyBool(TRUE), Absent, PyNum(60)) :
        k \in {Absent, PyStr(<<>>), PyStr(<<" ", " ">>), PyNum(7)} }
\* rejected data: success missing, None, a number or a str
BadSuccessInputs ==
    { Deployment(PyStr(K1), S1, ok, Absent, PyNum(60)) :
        ok \in {Absent, PyNone, PyNum(1), PyStr(<<"y">>)} }

ValidInputs == RankInputs \cup NoSolutionInputs \cup OtherKeyInputs
InvalidInputs == BadKeyInputs \cup BadSuccessInputs
QueryKeys == {K1, K2, <<"z">>}

Stored(db) == UNION { {db[k][i] : i \in 1..Len(db[k])} : k \in DOMAIN db }

InitLedger ==
    /\ error_database = <<>>
    /\ success_patterns = <<>>
    /\ performance_metrics = <<>>
    /\ pl_seq = 0
    /\ pl_call = PlCall("init", KeyOnly(<<>>), PyNone)

InitEngine ==
    /\ optimization_suggestions = <<>>
    /\ applied_improvements = <<>>
    /\ performance_history = 0
    /\ improvement_log = 0
    /\ ci_call = CiCall("init", <<>>, 0, 0, <<>>)

InitCoordinator ==
    /\ agent_profiles = <<>>
    /\ agent_order = <<>>
    /\ learning_experiences = <<>>
    /\ knowledge_transfers = <<>>
    /\ collaboration_network = <<>>
    /\ learning_metrics = [total_experiences |-> 0, successful_transfers |-> 0,
                           failed_transfers |-> 0, collaboration_count |-> 0,
                           knowledge_base_size |-> 0]
    /\ co_call = CoCall("init", "", "", "", 0, FALSE, 0)
    /\ co_now = Now
    /\ co_tasks = <<>>

InitOrchestrator ==
    /\ memory_store = [initialized |-> FALSE, memories |-> {}]
    /\ current_stage = 0
    /\ fo_pc = 0
    /\ fo_executed = <<>>
    /\ fo_result = NoResult

Init == InitLedger /\ InitEngine /\ InitCoordinator /\ InitOrchestrator

\* any accepted data, while the ledger is short
LearnValid ==
    \E d \in ValidInputs :
        /\ pl_seq < MaxLedger
        /\ learn_from_deployment(d)
        /\ UNCHANGED <<ciVars, coVars, foVars>>

LearnInvalid ==
    \E d \in InvalidInputs :
        /\ learn_from_deployment(d)
        /\ UNCHANGED <<ciVars, coVars, foVars>>

Suggest ==
    \E k \in QueryKeys :
        /\ SuggestSolution(k)
        /\ UNCHANGED <<ciVars, coVars, foVars>>

NextLedger == LearnValid \/ LearnInvalid \/ Suggest

SpecLedger == Init /\ [][NextLedger]_vars

ReadStats == GetLearningStats /\ UNCHANGED <<ciVars, coVars, foVars>>

NextStats == LearnValid \/ ReadStats

SpecStats == Init /\ [][NextStats]_vars

\* the data of a long run: solution S1 under K1, recent, no duration
RunInput(ok) == Deployment(PyStr(K1), S1, PyBool(ok), Absent, Absent)

\* long runs under one key, with at most MaxRunFailures failures among them
LearnRun ==
    \E ok \in BOOLEAN :
        /\ pl_seq < MaxRunCalls
        /\ ~ok => Len(ListGet(error_database, K1)) < MaxRunFailures
        /\ learn_from_deployment(RunInput(ok))
        /\ UNCHANGED <<ciVars, coVars, foVars>>

SuggestRun ==
    /\ SuggestSolution(K1)
    /\ UNCHANGED <<ciVars, coVars, foVars>>

NextRun == LearnRun \/ SuggestRun

SpecRun == Init /\ [][NextRun]_vars

----------------------------------------------------------------------------
(* Inputs of the ContinuousImprovementEngine *)

\* bound on the backlog length and on the applied-log length
MaxBacklog == 6
MaxApplied == 3

Metrics(m, r, e) == [memory_usage |-> m, response_times |-> r, error_rates |-> e]

\* a probe is left out, below its threshold or above it
MetricsInputs ==
    { Metrics(m, r, e) :
        m \in {Absent, PyNum(600)},
        r \in {Absent, PyNum(30), PyNum(40), PyNum(45)},
        e \in {Absent, PyNum(20)} }

Generate ==
    \E metrics \in MetricsInputs :
        /\ Len(optimization_suggestions)
              + Len(GeneratedSuggestions(metrics, optimization_suggestions)) <= MaxBacklog
        /\ generate_optimization_suggestions(metrics)
        /\ UNCHANGED <<plVars, coVars, foVars>>

Implement ==
    /\ Len(applied_improvements) < MaxApplied
    /\ implement_improvements
    /\ UNCHANGED <<plVars, coVars, foVars>>

NextEngine == Generate \/ Implement

SpecEngine == Init /\ [][NextEngine]_vars

----------------------------------------------------------------------------
(* Inputs of a long backlog: metrics that report 600MB of memory, alone or  *)
(* with a slow response time and a high error rate                         *)

\* bound on the backlog length
MaxQueued == 12

QueueInputs ==
    { Metrics(PyNum(600), Absent, Absent), Metrics(PyNum(600), PyNum(40), PyNum(20)) }

GenerateQueued ==
    \E metrics \in QueueInputs :
        /\ Len(optimization_suggestions)
              + Len(GeneratedSuggestions(metrics, optimization_suggestions)) <= MaxQueued
        /\ generate_optimization_suggestions(metrics)
        /\ UNCHANGED <<plVars, coVars, foVars>>

NextQueue == GenerateQueued \/ Implement

SpecQueue == Init /\ [][NextQueue]_vars

----------------------------------------------------------------------------
(* Inputs of a growing backlog: the same metrics, reporting 600MB of memory, *)
(* collected over and over; improvement cycles run while the backlog is     *)
(* short                                                                    *)

\* suggestions are generated while the backlog is shorter than this
MaxGrowth == 1001

GenerateAgain ==
    /\ Len(optimization_suggestions) < MaxGrowth
    /\ generate_optimization_suggestions(Metrics(PyNum(600), Absent, Absent))
    /\ UNCHANGED <<plVars, coVars, foVars>>

ImplementEarly ==
    /\ Len(optimization_suggestions) <= MaxQueued
    /\ Implement

NextGrowth == GenerateAgain \/ ImplementEarly

SpecGrowth == Init /\ [][NextGrowth]_vars

----------------------------------------------------------------------------
(* Inputs of a batch: suggestions a caller puts into optimization_suggestions, *)
(* well-formed ones, ones of a type that is no OptimizationType and ones       *)
(* without a title                                                             *)

\* bound on the backlog length
MaxSubmitted == 6

SubmittedInputs ==
    { Suggestion("performance", "Tune Cache", "low", 7, 0),
      Suggestion("cache", "Unknown Kind", "low", 7, 0),
      Suggestion("performance", NoTitle, "low", 7, 0),
      Suggestion("security", "Rotate Keys", "medium", 7, 0) }

\* optimization_suggestions.append(s) by the caller
Submit ==
    \E s \in SubmittedInputs :
        /\ Len(optimization_suggestions) < MaxSubmitted
        /\ optimization_suggestions' = Append(optimization_suggestions, s)
        /\ ci_call' = CiCall("append", <<s>>, 0, 0, <<>>)
        /\ UNCHANGED <<applied_improvements, performance_history, improvement_log>>
        /\ UNCHANGED <<plVars, coVars, foVars>>

NextBatch == Submit \/ Implement

SpecBatch == Init /\ [][NextBatch]_vars

----------------------------------------------------------------------------
(* Inputs of repeated cycles: a backlog is submitted, then                   *)
(* implement_improvements is called again and again with nothing generated  *)
(* or submitted in between                                                   *)

\* a LOW suggestion that applies and one whose type is not an OptimizationType
DrainInputs ==
    { Suggestion("performance", "Tune Cache", "low", 7, 0),
      Suggestion("cache", "Unknown Kind", "low", 7, 0) }

\* optimization_suggestions.append(s) by the caller, before the first cycle
SubmitFirst ==
    \E s \in DrainInputs :
        /\ ci_call.op # "implement_improvements"
        /\ Len(optimization_suggestions) < MaxSubmitted
        /\ optimization_suggestions' = Append(optimization_suggestions, s)
        /\ ci_call' = CiCall("append", <<s>>, 0, 0, <<>>)
        /\ UNCHANGED <<applied_improvements, performance_history, improvement_log>>
        /\ UNCHANGED <<plVars, coVars, foVars>>

ImplementAgain == implement_improvements /\ UNCHANGED <<plVars, coVars, foVars>>

NextDrain == SubmitFirst \/ ImplementAgain

\* the caller calls the cycle again and again; a cycle that leaves every
\* field and the result as they are is a stuttering step
SpecDrain == Init /\ [][NextDrain]_vars /\ WF_vars(ImplementAgain)

----------------------------------------------------------------------------
(* Inputs of the InterAgentLearningCoordinator *)

\* bounds on the experiences agents share, on the experience log (shared
\* experiences and those recorded for accepted transfers) and on the transfers
MaxShared == 1
MaxExperiences == 3
MaxTransfers == 2
\* bound on the failed_transfers counter
MaxRejects == 1

Agents == {"A", "B"}
Capabilities == {"testing", "code_review"}
\* a usual confidence, and confidences far above 1 and far below 0
Usual == 900
High == 6000
Low == -6000

WithinBounds(co) ==
    /\ Len(co.learning_experiences) <= MaxExperiences
    /\ Len(co.knowledge_transfers) <= MaxTransfers
    /\ co.learning_metrics.failed_transfers <= MaxRejects

\* the agents and the capability list each declares
Registrations == {<<"A", <<"testing">>>>, <<"B", <<"code_review">>>>}

\* A reports testing outcomes of every kind of confidence, B a code review
ShareInputs ==
    { LearningExperience("A", "experience_sharing", "testing", {}, x[1], x[2]) :
        x \in {<<TRUE, Usual>>, <<TRUE, High>>, <<FALSE, High>>, <<TRUE, Low>>} }
    \cup { LearningExperience("B", "experience_sharing", "code_review", {}, TRUE, High) }

RegisterAgent ==
    \E r \in Registrations :
        /\ Becomes(register_agent(Coordinator, r[1], r[2]))
        /\ UNCHANGED <<plVars, ciVars, co_call, foVars>>

ShareExperience ==
    \E experience \in ShareInputs :
        LET co == share_learning_experience(Coordinator, experience)
        IN /\ learning_metrics.total_experiences - learning_metrics.successful_transfers
                < MaxShared
           /\ WithinBounds(co)
           /\ Becomes(co)
           /\ UNCHANGED <<plVars, ciVars, co_call, foVars>>

RequestTransfer ==
    \E from \in Agents, to \in Agents, c \in Capabilities :
        LET r == request_knowledge_transfer(Coordinator, from, to, c)
        IN /\ from # to
           /\ WithinBounds(r.co)
           /\ Becomes(r.co)
           /\ UNCHANGED <<plVars, ciVars, co_call, foVars>>

ProcessTransfer ==
    \E id \in 1..(MaxTransfers + 1), accept \in BOOLEAN :
        LET r == process_knowledge_transfer(Coordinator, id, accept)
        IN /\ WithinBounds(r.co)
           /\ Becomes(r.co)
           /\ UNCHANGED <<plVars, ciVars, co_call, foVars>>

NextCoordinator == RegisterAgent \/ ShareExperience \/ RequestTransfer \/ ProcessTransfer

SpecCoordinator == Init /\ [][NextCoordinator]_vars

----------------------------------------------------------------------------
(* Inputs of the transfer workflow: transfers between any two agents, the   *)
(* requesting agent included, with every call and its result recorded; the *)
(* store answers or fails the writes of each call                          *)

\* bounds on the experience log and on the transfers
MaxHistory == 3
MaxRequests == 2

WithinHistory(co) ==
    /\ Len(co.learning_experiences) <= MaxHistory
    /\ Len(co.knowledge_transfers) <= MaxRequests
    /\ co.learning_metrics.failed_transfers <= MaxRejects

\* A reports a testing success, B a code review that lifts its reputation to 1
HistoryInputs ==
    { LearningExperience("A", "experience_sharing", "testing", {}, TRUE, Usual),
      LearningExperience("B", "experience_sharing", "code_review", {}, TRUE, High) }

\* agents register before the first experience is shared
RegisterOnce ==
    \E r \in Registrations :
        /\ r[1] \notin DOMAIN agent_profiles
        /\ learning_experiences = <<>>
        /\ Becomes(register_agent(Coordinator, r[1], r[2]))
        /\ \E store_ok \in BOOLEAN :
              \* register_agent has no try block of its own
              co_call' = WithStore(CoCall("register_agent", r[1], "", "", 0, FALSE, 1),
                                   SaveOutcome(store_ok), SaveOutcome(store_ok) = "raised")
        /\ UNCHANGED <<plVars, ciVars, foVars>>

\* experiences are shared before the first transfer exists
ShareHistory ==
    \E experience \in HistoryInputs :
        LET co == share_learning_experience(Coordinator, experience)
        IN /\ knowledge_transfers = <<>>
           /\ WithinHistory(co)
           /\ Becomes(co)
           /\ \E store_ok \in BOOLEAN :
                 co_call' = WithStore(CoCall("share_learning_experience", "", "", "", 0, FALSE,
                                             Caught(SaveOutcome(store_ok), 1)),
                                      SaveOutcome(store_ok), FALSE)
           /\ UNCHANGED <<plVars, ciVars, foVars>>

\* A's testing knowledge is requested for B or for A itself
RequestTesting ==
    \E from \in {"A"}, to \in Agents, c \in {"testing"} :
        LET r == request_knowledge_transfer(Coordinator, from, to, c)
        IN /\ WithinHistory(r.co)
           /\ Becomes(r.co)
           /\ \E store_ok \in BOOLEAN :
                 LET saved == IF r.ret = 0 THEN "none" ELSE SaveOutcome(store_ok)
                 IN co_call' = WithStore(CoCall("request_knowledge_transfer", from, to, c, 0,
                                                FALSE, Caught(saved, r.ret)),
                                         saved, FALSE)
           /\ UNCHANGED <<plVars, ciVars, foVars>>

ProcessAny ==
    \E id \in 1..(MaxRequests + 1), accept \in BOOLEAN :
        LET r == process_knowledge_transfer(Coordinator, id, accept)
        IN /\ WithinHistory(r.co)
           /\ Becomes(r.co)
           /\ \E store_ok \in BOOLEAN :
                 LET saved == IF r.ret THEN SaveOutcome(store_ok) ELSE "none"
                 IN co_call' = WithStore(CoCall("process_knowledge_transfer", "", "", "", id,
                                                accept, Caught(saved, IF r.ret THEN 1 ELSE 0)),
                                         saved, FALSE)
           /\ UNCHANGED <<plVars, ciVars, foVars>>

\* A reports a testing success whose outcome is None
ShareWithoutOutcome ==
    \E experience \in {WithoutOutcome(e) : e \in {x \in HistoryInputs : x.agent_id = "A"}} :
        LET r == TryShare(Coordinator, experience)
        IN /\ WithinHistory(r.co)
           /\ Becomes(r.co)
           /\ \E store_ok \in BOOLEAN :
                 LET saved == IF r.ret THEN SaveOutcome(store_ok) ELSE "none"
                 IN co_call' = WithStore(CoCall("share_learning_experience", "", "", "", 0,
                                                FALSE, Caught(saved, IF r.ret THEN 1 ELSE 0)),
                                         saved, FALSE)
           /\ UNCHANGED <<plVars, ciVars, foVars>>

\* an agent asks for testing knowledge and names no source
RequestKnowledge ==
    \E agent \in Agents, c \in {"testing"} :
        LET r == request_knowledge(Coordinator, agent, c)
        IN /\ WithinHistory(r.co)
           /\ Becomes(r.co)
           /\ \E store_ok \in BOOLEAN :
                 LET saved == IF r.ret = 0 THEN "none" ELSE SaveOutcome(store_ok)
                 IN co_call' = WithStore(CoCall("request_knowledge", "", agent, c, 0,
                                                FALSE, Caught(saved, r.ret)),
                                         saved, r.raised)
           /\ UNCHANGED <<plVars, ciVars, foVars>>

NextTransfer ==
    \/ RegisterOnce
    \/ ShareHistory
    \/ ShareWithoutOutcome
    \/ RequestTesting
    \/ RequestKnowledge
    \/ ProcessAny

SpecTransfer == Init /\ [][NextTransfer]_vars

----------------------------------------------------------------------------
(* Inputs of the pipeline: stage functions of every outcome, on an           *)
(* orchestrator that was initialized or not                                  *)

\* a stage function returns a successful result, returns a failed result, or
\* (replaced on the instance) raises
StageOutcomes == {"ok", "failed", "raised"}

InitializeOrchestrator == Initialize /\ UNCHANGED <<plVars, ciVars, coVars>>

RunStage == \E outcome \in StageOutcomes :
                ExecuteStage(outcome) /\ UNCHANGED <<plVars, ciVars, coVars>>

NextPipeline == InitializeOrchestrator \/ RunStage

SpecPipeline == Init /\ [][NextPipeline]_vars

----------------------------------------------------------------------------
(* Inputs of the cleanup of inactive agents: days pass between the calls   *)

\* bounds on the days that pass, on the experience log and on the transfers
MaxDays == 3
MaxReports == 2
MaxAsks == 1
\* max_inactive_days of a call
InactiveDays == {0, 1, 2}

\* one day passes
Tick ==
    /\ co_now < Now + MaxDays
    /\ co_now' = co_now + 1
    /\ UNCHANGED <<agent_profiles, agent_order, learning_experiences, knowledge_transfers,
                   collaboration_network, learning_metrics, co_call, co_tasks>>
    /\ UNCHANGED <<plVars, ciVars, foVars>>

\* an agent registers, for the first time or again
RegisterAgain ==
    \E r \in Registrations :
        /\ Becomes(register_agent(Coordinator, r[1], r[2]))
        \* the call, and whether the id had a profile when it was made
        /\ co_call' = CoCall("register_agent", r[1], "", "", 0, FALSE, 1)
                        @@ [replaced |-> r[1] \in DOMAIN agent_profiles]
        /\ UNCHANGED <<plVars, ciVars, foVars>>

ShareReport ==
    \E experience \in HistoryInputs :
        LET co == share_learning_experience(Coordinator, experience)
        IN /\ Len(co.learning_experiences) <= MaxReports
           /\ Becomes(co)
           /\ co_call' = CoCall("share_learning_experience", "", "", "", 0, FALSE, 1)
           /\ UNCHANGED <<plVars, ciVars, foVars>>

RequestOnce ==
    \E from \in {"A"}, to \in {"B"}, c \in {"testing"} :
        LET r == request_knowledge_transfer(Coordinator, from, to, c)
        IN /\ Len(r.co.knowledge_transfers) <= MaxAsks
           /\ Becomes(r.co)
           /\ co_call' = CoCall("request_knowledge_transfer", from, to, c, 0, FALSE, r.ret)
           /\ UNCHANGED <<plVars, ciVars, foVars>>

Cleanup ==
    \E max_inactive_days \in InactiveDays :
        LET r == cleanup_inactive_agents(Coordinator, max_inactive_days)
        IN /\ Becomes(r.co)
           /\ co_call' = CleanupCall(max_inactive_days, r.ret)
           /\ UNCHANGED <<plVars, ciVars, foVars>>

NextCleanup == Tick \/ RegisterAgain \/ ShareReport \/ RequestOnce \/ Cleanup

SpecCleanup == Init /\ [][NextCleanup]_vars

\* A's testing knowledge is requested for B while B is registered
RequestRegistered ==
    /\ "B" \in DOMAIN agent_profiles
    /\ RequestOnce

\* the transfer is accepted or rejected
ProcessAsked ==
    \E id \in 1..MaxAsks, accept \in BOOLEAN :
        LET r == process_knowledge_transfer(Coordinator, id, accept)
        IN /\ Len(r.co.learning_experiences) <= MaxReports + 1
           /\ r.co.learning_metrics.successful_transfers
                + r.co.learning_metrics.failed_transfers <= MaxAsks
           /\ Becomes(r.co)
           /\ co_call' = CoCall("process_knowledge_transfer", "", "", "", id, accept,
                                IF r.ret THEN 1 ELSE 0)
           /\ UNCHANGED <<plVars, ciVars, foVars>>

NextRemoved ==
    Tick \/ RegisterAgain \/ ShareReport \/ RequestRegistered \/ Cleanup \/ ProcessAsked

SpecRemoved == Init /\ [][NextRemoved]_vars

\* an experience is shared and awaited before the two tasks are created
ShareBefore == co_tasks = <<>> /\ ShareHistory

\* what the two tasks report for A
TaskInputs ==
    { LearningExperience("A", "experience_sharing", "testing", {}, TRUE, Usual),
      LearningExperience("A", "experience_sharing", "testing", {}, FALSE, Usual),
      LearningExperience("A", "experience_sharing", "code_review", {}, TRUE, Usual) }

\* asyncio.gather of two share_learning_experience calls for the registered A
CreateTasks ==
    \E e1 \in TaskInputs, e2 \in TaskInputs :
        /\ co_tasks = <<>>
        /\ "A" \in DOMAIN agent_profiles
        /\ Len(learning_experiences) + 2 <= MaxHistory
        /\ BecomesWith(Coordinator, <<ShareTask(e1, Coordinator), ShareTask(e2, Coordinator)>>)
        /\ UNCHANGED <<plVars, ciVars, co_call, foVars>>

\* the event loop runs the first segment of a task
RunFirstSegment ==
    \E i \in DOMAIN co_tasks :
        /\ co_tasks[i].pc = "created"
        /\ BecomesWith(FirstSegment(co_tasks[i]),
                       [co_tasks EXCEPT ![i].pc = "set_experiences"])
        /\ UNCHANGED <<plVars, ciVars, co_call, foVars>>

\* the event loop resumes a task after a write of the store
ResumeAfterSet ==
    \E i \in DOMAIN co_tasks, store_ok \in BOOLEAN :
        /\ co_tasks[i].pc \in {"set_experiences", "set_transfers"}
        /\ BecomesWith(Coordinator,
                       [co_tasks EXCEPT ![i].pc = AfterSet(co_tasks[i].pc, store_ok)])
        /\ co_call' = IF AfterSet(co_tasks[i].pc, store_ok) = "returned"
                      THEN WithStore(CoCall("share_learning_experience", "", "", "", 0, FALSE, 1),
                                     SaveOutcome(store_ok), FALSE)
                      ELSE co_call
        /\ UNCHANGED <<plVars, ciVars, foVars>>

NextTasks == RegisterOnce \/ ShareBefore \/ CreateTasks \/ RunFirstSegment \/ ResumeAfterSet

SpecTasks == Init /\ [][NextTasks]_vars

----------------------------------------------------------------------------
(* Inputs of transfer requests: longer experience logs of one agent, and    *)
(* requests between any two agents for any capability                      *)

\* bounds on the experience log and on the transfers requested
MaxLog == 4
MaxAsked == 1

\* A reports testing successes at and above the transfer threshold, and a
\* failure
LogInputs ==
    { LearningExperience("A", "experience_sharing", "testing", {}, x[1], x[2]) :
        x \in {<<TRUE, 700>>, <<TRUE, 800>>, <<TRUE, Usual>>, <<FALSE, Usual>>} }

ShareLog ==
    \E experience \in LogInputs :
        LET co == share_learning_experience(Coordinator, experience)
        IN /\ Len(co.learning_experiences) <= MaxLog
           /\ Becomes(co)
           /\ co_call' = CoCall("share_learning_experience", "", "", "", 0, FALSE, 1)
           /\ UNCHANGED <<plVars, ciVars, foVars>>

RequestAny ==
    \E from \in Agents, to \in Agents, c \in Capabilities :
        LET r == request_knowledge_transfer(Coordinator, from, to, c)
        IN /\ Len(r.co.knowledge_transfers) <= MaxAsked
           /\ Becomes(r.co)
           /\ co_call' = CoCall("request_knowledge_transfer", from, to, c, 0, FALSE, r.ret)
           /\ UNCHANGED <<plVars, ciVars, foVars>>

NextRequest == ShareLog \/ RequestAny

SpecRequest == Init /\ [][NextRequest]_vars

----------------------------------------------------------------------------
(* Properties of the knowledge-transfer workflow (SpecCoordinator) *)

\* the step is process_knowledge_transfer(transfer_id, accept)
ProcessStep(transfer_id, accept) ==
    Becomes(process_knowledge_transfer(Coordinator, transfer_id, accept).co)

TransferIds == 1..Len(knowledge_transfers)

StatusForward(before, after) ==
    \/ after = before
    \/ before = "pending" /\ after \in {"accepted", "rejected"}
    \/ before = "accepted" /\ after = "applied"

\* C1: a transfer's status only moves forward (pending to accepted or rejected,
\* accepted to applied); a rejected transfer stays rejected and no transfer
\* returns to an earlier status.
C1_StatusOnlyForward ==
    [][\A id \in TransferIds :
          StatusForward(knowledge_transfers[id].status, knowledge_transfers'[id].status)]_vars

\* C2: processing with accept=True a transfer that was already processed reports
\* success and changes nothing: no reputation raise, no further experience, no
\* counter increment.
C2_ProcessIdempotent ==
    [][\A id \in TransferIds :
          (knowledge_transfers[id].status # "pending" /\ ProcessStep(id, TRUE))
              => /\ process_knowledge_transfer(Coordinator, id, TRUE).ret
                 /\ UNCHANGED <<agent_profiles, learning_experiences, knowledge_transfers,
                                learning_metrics>>]_vars

\* C10: process(id, accept=True) on a pending transfer leaves it with status
\* applied.
C10_AcceptLeavesApplied ==
    [][\A id \in TransferIds :
          (knowledge_transfers[id].status = "pending" /\ ProcessStep(id, TRUE))
              => knowledge_transfers'[id].status = "applied"]_vars

----------------------------------------------------------------------------
(* Properties of the agent profiles (SpecCoordinator) *)

\* C8: every profile's reputation lies in [0, 1] after every operation.
C8_ReputationInRange ==
    \A a \in DOMAIN agent_profiles :
        /\ agent_profiles[a].reputation_score >= 0
        /\ agent_profiles[a].reputation_score <= One

\* a transfer was accepted, and a profile that took part in an experience of
\* confidence above 1 stands at reputation 1
C8_Witness ==
    /\ learning_metrics.successful_transfers > 0
    /\ \E i \in 1..Len(learning_experiences) : learning_experiences[i].confidence > One
    /\ \E a \in DOMAIN agent_profiles :
          agent_profiles[a].experience_count > 0 /\ agent_profiles[a].reputation_score = One

\* C9: every profile's success_rate and average_confidence lie in [0, 1] after
\* every shared experience, whatever its confidence.
C9_RatesInRange ==
    \A a \in DOMAIN agent_profiles :
        /\ agent_profiles[a].success_rate >= 0
        /\ agent_profiles[a].success_rate <= One
        /\ agent_profiles[a].average_confidence >= 0
        /\ agent_profiles[a].average_confidence <= One

----------------------------------------------------------------------------
(* Properties of implement_improvements (SpecEngine) *)

ImplementStep == ci_call'.op = "implement_improvements"

NonLow(list) == SelectSeq(list, LAMBDA x : x.risk_level # "low")

LowCount(list) == Cardinality({i \in 1..Len(list) : list[i].risk_level = "low"})

Logged(entry, suggestion) ==
    /\ entry.title = suggestion.title
    /\ entry.type = suggestion.type
    /\ entry.risk_level = suggestion.risk_level

\* C3: implement_improvements leaves the suggestions whose risk is not LOW as
\* they were, in the same order, and logs none of them as applied.
C3_NonLowUntouched ==
    [][ImplementStep =>
          /\ NonLow(optimization_suggestions') = NonLow(optimization_suggestions)
          /\ \A i \in 1..Len(applied_improvements'), j \in 1..Len(optimization_suggestions) :
                optimization_suggestions[j].risk_level # "low"
                    => ~Logged(applied_improvements'[i], optimization_suggestions[j])]_vars

\* a cycle applied suggestions while suggestions of other risk were pending
C3_Witness ==
    /\ ci_call.op = "implement_improvements"
    /\ ci_call.implemented > 0
    /\ Len(NonLow(optimization_suggestions)) >= 2

\* C4: with n LOW suggestions pending, all applicable, one call applies
\* min(5, n) of them and leaves n - min(5, n) LOW suggestions pending.
C4_AppliesMinFive ==
    [][(ImplementStep /\ ci_call'.failed = 0) =>
          LET n == LowCount(optimization_suggestions)
          IN /\ ci_call'.implemented = Min(5, n)
             /\ LowCount(optimization_suggestions') = n - Min(5, n)]_vars

----------------------------------------------------------------------------
(* Properties of the pattern ledger (SpecRun, SpecLedger) *)

Retained(k) ==
    {ListGet(error_database, k)[i] : i \in 1..Len(ListGet(error_database, k))}
        \cup {ListGet(success_patterns, k)[i] : i \in 1..Len(ListGet(success_patterns, k))}

\* C5: after n accepted calls for a key the retained records are the
\* min(n, 50) most recently recorded ones.
C5_KeepsNewestFifty ==
    {e.seq : e \in Retained(K1)} = (pl_seq - Min(pl_seq, 50) + 1)..pl_seq

Candidates(k) == {e.solution : e \in Retained(k)} \ {PyNone, PyStr(<<>>), Unknown}

With(k, s) == {e \in Retained(k) : e.solution = s}

RECURSIVE TotalTime(_)
TotalTime(entries) ==
    IF entries = {} THEN 0
    ELSE LET e == CHOOSE x \in entries : TRUE
         IN (IF e.execution_time.t = "num" THEN e.execution_time.n ELSE 0)
                + TotalTime(entries \ {e})

\* 36000 * count * (0.6 * success_rate + 0.3 * recency_score + 0.1 * time_score)
Composite(k, s) ==
    LET n == Cardinality(With(k, s))
        won == Cardinality({e \in With(k, s) : e.success})
        recent == Cardinality({e \in With(k, s) : Now - e.timestamp < RecencyDays})
        spare == 3600 * n - TotalTime(With(k, s))
    IN 6 * 3600 * won + 3 * 3600 * recent + (IF spare > 0 THEN spare ELSE 0)

AtLeast(k, s, t) ==
    Composite(k, s) * Cardinality(With(k, t)) >= Composite(k, t) * Cardinality(With(k, s))

Reliable(k, s) ==
    10 * Cardinality({e \in With(k, s) : e.success}) >= 7 * Cardinality(With(k, s))

Top(k) == {s \in Candidates(k) : \A t \in Candidates(k) : AtLeast(k, s, t)}

\* C6: suggest_solution returns a solution of highest composite score if that
\* solution's success rate is at least 0.7, and None otherwise, also when a
\* solution of lower score reaches 0.7.
C6_SuggestsTopIfReliable ==
    \A k \in QueryKeys :
        LET r == suggest_solution(k)
        IN IF r = PyNone
           THEN Candidates(k) = {} \/ \E s \in Top(k) : ~Reliable(k, s)
           ELSE r \in Top(k) /\ Reliable(k, r)

\* suggest_solution returned None for K1 although a solution of lower score
\* is reliable: the top-scoring solution is not
C6_Witness ==
    /\ pl_call.op = "suggest_solution"
    /\ pl_call.arg.error_type.s = K1
    /\ pl_call.ret = PyNone
    /\ suggest_solution(K1) = PyNone
    /\ \E s \in Candidates(K1) : Reliable(K1, s)

Blank(cs) == \A i \in 1..Len(cs) : cs[i] = " "

\* the key is missing, empty, blank or no str, or the flag is missing or no bool
Rejectable(d) ==
    \/ d.error_type.t # "str"
    \/ Blank(d.error_type.s)
    \/ d.success.t # "bool"

\* C7: learn_from_deployment returns False and changes no record and no
\* performance metric when the key is missing, empty, blank or not a str, or the
\* success flag is missing or not a bool.
C7_InvalidRejected ==
    [][(pl_call'.op = "learn_from_deployment" /\ Rejectable(pl_call'.arg)) =>
          /\ pl_call'.ret = PyBool(FALSE)
          /\ UNCHANGED <<error_database, success_patterns, performance_metrics>>]_vars

\* a call was rejected while records were held
C7_Witness ==
    /\ pl_call.op = "learn_from_deployment"
    /\ Rejectable(pl_call.arg)
    /\ pl_call.ret = PyBool(FALSE)
    /\ Retained(K1) # {}

----------------------------------------------------------------------------
(* Properties of accepted and unknown transfers (SpecTransfer) *)

Count(list, x) == Cardinality({i \in 1..Len(list) : list[i] = x})

\* the step is an accepting process call on the pending transfer id
AcceptsPending(id) ==
    /\ co_call'.op = "process_knowledge_transfer"
    /\ co_call'.transfer_id = id
    /\ co_call'.accept
    /\ id \in TransferIds
    /\ knowledge_transfers[id].status = "pending"
    /\ knowledge_transfers[id].to_agent \in DOMAIN agent_profiles

\* the target holds the capability once in both lists and gained 0.05, capped
Received(id) ==
    LET t == knowledge_transfers[id]
        before == agent_profiles[t.to_agent]
        after == agent_profiles'[t.to_agent]
    IN /\ Count(after.capabilities, t.knowledge_type) = 1
       /\ Count(after.specializations, t.knowledge_type) = 1
       /\ after.reputation_score =
              (IF before.reputation_score + 50 > 1000 THEN 1000
               ELSE before.reputation_score + 50)

\* C11 as stated: accepting a pending transfer whose target is registered
\* leaves the capability once among the target's capabilities and
\* specializations and the target's reputation at min(1.0, previous + 0.05).
C11_TargetReceives ==
    [][\A id \in 1..(MaxRequests + 1) : AcceptsPending(id) => Received(id)]_vars

\* C11 amended: the same for a transfer whose target is registered and is not
\* the transfer's source agent.
C11_OtherTargetReceives ==
    [][\A id \in 1..(MaxRequests + 1) :
          (AcceptsPending(id)
              /\ knowledge_transfers[id].from_agent # knowledge_transfers[id].to_agent)
          => Received(id)]_vars

\* a transfer to another, registered agent was accepted at its first
\* processing, and the target's reputation stands at the cap
C11_Witness ==
    /\ co_call.op = "process_knowledge_transfer"
    /\ co_call.accept
    /\ co_call.ret = 1
    /\ learning_metrics.successful_transfers = 1
    /\ learning_metrics.failed_transfers = 0
    /\ LET t == knowledge_transfers[co_call.transfer_id]
       IN /\ t.from_agent # t.to_agent
          /\ t.to_agent \in DOMAIN agent_profiles
          /\ InList(agent_profiles[t.to_agent].capabilities, t.knowledge_type)
          /\ agent_profiles[t.to_agent].reputation_score = 1000

\* C12: process with an id that names no transfer returns False and leaves
\* every transfer, profile, experience and counter unchanged.
C12_UnknownIdFails ==
    [][(co_call'.op = "process_knowledge_transfer" /\ co_call'.transfer_id \notin TransferIds)
          => /\ co_call'.ret = 0
             /\ UNCHANGED <<agent_profiles, agent_order, learning_experiences,
                            knowledge_transfers, collaboration_network,
                            learning_metrics>>]_vars

\* an unknown id was processed, to be accepted, while transfers were held
C12_Witness ==
    /\ co_call.op = "process_knowledge_transfer"
    /\ co_call.transfer_id \notin TransferIds
    /\ co_call.accept
    /\ co_call.ret = 0
    /\ knowledge_transfers # <<>>

----------------------------------------------------------------------------
(* Properties of transfer requests (SpecRequest) *)

\* positions in the log of the successful experiences of an agent for a
\* capability with confidence above 0.7
Qualifying(from, c) ==
    {i \in 1..Len(learning_experiences) :
        /\ learning_experiences[i].agent_id = from
        /\ learning_experiences[i].capability = c
        /\ learning_experiences[i].success
        /\ learning_experiences[i].confidence > 700}

Requested == co_call'.op = "request_knowledge_transfer"

\* C13: a request returns None, creates no transfer and adds no collaboration
\* edge when the source agent has no successful experience for the
\* capability with confidence above 0.7.
C13_NothingToTransfer ==
    [][(Requested /\ Qualifying(co_call'.from_agent, co_call'.capability) = {})
          => /\ co_call'.ret = 0
             /\ UNCHANGED <<knowledge_transfers, collaboration_network>>]_vars

\* A's testing knowledge was requested and refused while A held a success at
\* confidence 0.7 and a failure at confidence 0.9
C13_Witness ==
    /\ co_call.op = "request_knowledge_transfer"
    /\ co_call.from_agent = "A"
    /\ co_call.capability = "testing"
    /\ co_call.ret = 0
    /\ \E i, j \in 1..Len(learning_experiences) :
          /\ learning_experiences[i].success /\ learning_experiences[i].confidence = 700
          /\ ~learning_experiences[j].success /\ learning_experiences[j].confidence > 700

RECURSIVE SumAt(_)
SumAt(positions) ==
    IF positions = {} THEN 0
    ELSE LET i == CHOOSE x \in positions : TRUE
         IN learning_experiences[i].confidence + SumAt(positions \ {i})

\* the position of the k-th latest element of positions
Latest(positions, k) ==
    CHOOSE i \in positions : Cardinality({j \in positions : j >= i}) = k

\* C14: a request of an agent with qualifying experiences creates exactly one
\* transfer, pending, whose confidence is the mean confidence of all
\* qualifying experiences and whose content is the min(3, count) most recent
\* of them.
C14_RequestCreatesTransfer ==
    [][LET q == Qualifying(co_call'.from_agent, co_call'.capability)
           n == Cardinality(q)
           k == IF n < 3 THEN n ELSE 3
           last == Len(knowledge_transfers) + 1
       IN (Requested /\ q # {})
          => /\ co_call'.ret # 0
             /\ Len(knowledge_transfers') = last
             /\ SubSeq(knowledge_transfers', 1, last - 1) = knowledge_transfers
             /\ knowledge_transfers'[last].status = "pending"
             /\ knowledge_transfers'[last].from_agent = co_call'.from_agent
             /\ knowledge_transfers'[last].to_agent = co_call'.to_agent
             /\ knowledge_transfers'[last].knowledge_type = co_call'.capability
             /\ n * knowledge_transfers'[last].confidence <= SumAt(q)
             /\ SumAt(q) < n * (knowledge_transfers'[last].confidence + 1)
             /\ Len(knowledge_transfers'[last].content) = k
             /\ \A m \in 1..k :
                    knowledge_transfers'[last].content[m]
                        = learning_experiences[Latest(q, k - m + 1)]]_vars

\* a transfer was requested from four qualifying experiences whose mean
\* confidence differs from the mean of the three it carries
C14_Witness ==
    /\ co_call.op = "request_knowledge_transfer"
    /\ co_call.ret # 0
    /\ Cardinality(Qualifying(co_call.from_agent, co_call.capability)) = 4
    /\ LET t == knowledge_transfers[co_call.ret]
       IN /\ Len(t.content) = 3
          /\ 3 * t.confidence # t.content[1].confidence + t.content[2].confidence
                                    + t.content[3].confidence

----------------------------------------------------------------------------
(* Properties of a batch with failures (SpecBatch) *)

\* C15: a failure on one LOW-risk suggestion does not abort the batch: on
\* return implemented + failed is the number of suggestions attempted,
\* min(5, number of LOW-risk suggestions), with one details entry for each.
C15_BatchAccountsForAll ==
    [][ImplementStep =>
          LET n == LowCount(optimization_suggestions)
              attempted == IF n < 5 THEN n ELSE 5
          IN /\ ci_call'.implemented + ci_call'.failed = attempted
             /\ Len(ci_call'.details) = attempted]_vars

----------------------------------------------------------------------------
(* Properties of suggestion generation over long backlogs (SpecQueue) *)

\* the suggestions generated for the metrics are exactly one of type MEMORY,
\* and it has risk MEDIUM
OneMemoryMedium(metrics) ==
    LET generated == GeneratedSuggestions(metrics, optimization_suggestions)
        memory == {i \in 1..Len(generated) : generated[i].type = "memory"}
    IN /\ Cardinality(memory) = 1
       /\ \A i \in memory : generated[i].risk_level = "medium"

ReportsMemory600 == {metrics \in MetricsInputs : metrics.memory_usage = PyNum(600)}

\* C16 as stated: for metrics reporting 600MB, generate_optimization_suggestions
\* yields exactly one suggestion of type MEMORY, of risk MEDIUM, whatever the
\* size of the backlog.
C16_OneMemorySuggestion ==
    \A metrics \in ReportsMemory600 : OneMemoryMedium(metrics)

\* C16 amended: the same while the backlog holds at most 10 suggestions.
C16_OneMemoryUpToTen ==
    \A metrics \in ReportsMemory600 :
        Len(optimization_suggestions) <= 10 => OneMemoryMedium(metrics)

\* suggestions were generated for 600MB on a backlog of 10, and one of them
\* is of type MEMORY
C16_Witness ==
    /\ ci_call.op = "generate_optimization_suggestions"
    /\ Len(optimization_suggestions) - Len(ci_call.suggestions) = 10
    /\ Cardinality({i \in 1..Len(ci_call.suggestions) :
                        ci_call.suggestions[i].type = "memory"
                            /\ ci_call.suggestions[i].metrics = 600}) = 1

----------------------------------------------------------------------------
(* Properties of a growing backlog (SpecGrowth) *)

\* C17: the backlog never holds more than 1000 suggestions.
C17_BacklogAtMostThousand == Len(optimization_suggestions) <= 1000

----------------------------------------------------------------------------
(* Properties of a query for an unseen key (SpecLedger) *)

\* the keys either dictionary holds an entry for
KnownKeys == DOMAIN error_database \cup DOMAIN success_patterns

\* the number of records the two dictionaries hold
RecordCount(db) ==
    LET RECURSIVE Sum(_)
        Sum(ks) == IF ks = {} THEN 0
                   ELSE LET k == CHOOSE x \in ks : TRUE
                        IN Len(db[k]) + Sum(ks \ {k})
    IN Sum(DOMAIN db)

\* C18: suggest_solution for a key with no entry in either dictionary returns
\* None and leaves the ledger as it was: no entry is created, the record count
\* and the set of known keys are unchanged.
C18_UnseenKeyLeavesLedger ==
    [][(pl_call'.op = "suggest_solution" /\ pl_call'.arg.error_type.s \notin KnownKeys)
          => /\ pl_call'.ret = PyNone
             /\ DOMAIN error_database' = DOMAIN error_database
             /\ DOMAIN success_patterns' = DOMAIN success_patterns
             /\ DOMAIN performance_metrics' = DOMAIN performance_metrics
             /\ RecordCount(error_database') + RecordCount(success_patterns')
                  = RecordCount(error_database) + RecordCount(success_patterns)
             /\ error_database' = error_database
             /\ success_patterns' = success_patterns]_vars

\* an unseen key was queried while other keys hold records
C18_Witness ==
    /\ pl_call.op = "suggest_solution"
    /\ pl_call.arg.error_type.s \notin KnownKeys
    /\ pl_call.ret = PyNone
    /\ RecordCount(error_database) + RecordCount(success_patterns) >= 2

----------------------------------------------------------------------------
(* Properties of the learning statistics (SpecStats) *)

\* the retained records that carry a solution
Solved == {e \in Stored(error_database) \cup Stored(success_patterns) :
             Truthy(e.solution) /\ e.solution # Unknown}

\* the retained records of one key that carry a solution
SolvedOf(k) == {e \in Retained(k) : e \in Solved}

\* the keys whose own success rate is not the rate over all records
OffAverage ==
    {k \in KnownKeys :
        /\ SolvedOf(k) # {}
        /\ Cardinality({e \in SolvedOf(k) : e.success}) * Cardinality(Solved)
             # Cardinality({e \in Solved : e.success}) * Cardinality(SolvedOf(k))}

\* C19: get_learning_stats reports one weighted average success rate, the
\* number of successful records over the number of records, each retained
\* record that carries a solution counted once, over all solutions of all
\* keys.
C19_WeightedAverage ==
    (pl_call.op = "get_learning_stats" /\ Solved # {})
        => LET r == pl_call.ret.average_success_rate
           IN r.num * Cardinality(Solved) = Cardinality({e \in Solved : e.success}) * r.den

\* the statistics were read while two keys hold records at different rates
\* and a record without a solution is retained
C19_Witness ==
    /\ pl_call.op = "get_learning_stats"
    /\ OffAverage # {}
    /\ Cardinality({k \in KnownKeys : SolvedOf(k) # {}}) = 2
    /\ (Stored(error_database) \cup Stored(success_patterns)) \ Solved # {}
    /\ pl_call.ret.average_success_rate.num > 0
    /\ pl_call.ret.average_success_rate.num < pl_call.ret.average_success_rate.den

----------------------------------------------------------------------------
(* Properties of the cleanup of inactive agents (SpecCleanup) *)

\* the agents last active before the cutoff of a call made now
Older(max_inactive_days) ==
    {a \in DOMAIN agent_profiles : agent_profiles[a].last_active < co_now - max_inactive_days}

\* C20: cleanup_inactive_agents(ttl) removes exactly the profiles whose
\* last_active is older than now - ttl, returns the number removed, and leaves
\* every experience and every transfer unchanged.  (A step that leaves the
\* clock alone and ends with a cleanup call recorded is that call.)
C20_RemovesOnlyInactive ==
    [][(co_call'.op = "cleanup_inactive_agents" /\ co_now' = co_now)
          => /\ DOMAIN agent_profiles'
                  = DOMAIN agent_profiles \ Older(co_call'.max_inactive_days)
             /\ \A a \in DOMAIN agent_profiles' : agent_profiles'[a] = agent_profiles[a]
             /\ co_call'.ret = Cardinality(Older(co_call'.max_inactive_days))
             /\ learning_experiences' = learning_experiences
             /\ knowledge_transfers' = knowledge_transfers]_vars

\* a call removed one of two agents and kept the other, which was last active
\* exactly at the cutoff, while experiences and a transfer are held
C20_Witness ==
    /\ co_call.op = "cleanup_inactive_agents"
    /\ co_call.ret = 1
    /\ co_call.max_inactive_days > 0
    /\ \E a \in DOMAIN agent_profiles :
           agent_profiles[a].last_active = co_now - co_call.max_inactive_days
    /\ learning_experiences # <<>>
    /\ knowledge_transfers # <<>>

----------------------------------------------------------------------------
(* Properties of a failing store (SpecTransfer) *)

\* C21: when the durable store fails on the write of register_agent,
\* share_experience, request_transfer or process, the call still completes
\* with its normal result, no exception reaches the caller and the in-memory
\* change of the call (profile, experience, transfer) is in place.
C21_StoreFailureAbsorbed ==
    [][co_call'.saved # "saved" /\ co_call'.saved # "none"
          => /\ ~co_call'.raised
             /\ co_call'.op = "register_agent"
                  => /\ co_call'.ret = 1
                     /\ co_call'.from_agent \in DOMAIN agent_profiles'
                     /\ co_call'.from_agent \notin DOMAIN agent_profiles
             /\ co_call'.op = "share_learning_experience"
                  => /\ co_call'.ret = 1
                     /\ Len(learning_experiences') = Len(learning_experiences) + 1
                     /\ learning_metrics'.total_experiences
                          = learning_metrics.total_experiences + 1
             /\ co_call'.op = "request_knowledge_transfer"
                  => /\ co_call'.ret = Len(knowledge_transfers')
                     /\ Len(knowledge_transfers') = Len(knowledge_transfers) + 1
             /\ co_call'.op = "process_knowledge_transfer"
                  => /\ co_call'.ret = 1
                     /\ knowledge_transfers'[co_call'.transfer_id].status
                          = IF co_call'.accept THEN AcceptedStatus ELSE "rejected"]_vars

\* an accepted transfer was processed while the store failed, and the target
\* holds the capability
C21_Witness ==
    /\ co_call.op = "process_knowledge_transfer"
    /\ co_call.saved = "logged"
    /\ co_call.accept
    /\ co_call.ret = 1
    /\ knowledge_transfers[co_call.transfer_id].to_agent \in DOMAIN agent_profiles
    /\ InList(agent_profiles[knowledge_transfers[co_call.transfer_id].to_agent].capabilities,
              knowledge_transfers[co_call.transfer_id].knowledge_type)

----------------------------------------------------------------------------
(* Properties of the pipeline (SpecPipeline) *)

\* C22: run_pipeline executes the ten stages in the fixed order and stops at
\* the first stage that fails or raises: it returns that stage's failed result
\* and executes no later stage; only when every stage succeeded does it return
\* the successful REPORTING result with status completed.
C22_StopsAtFirstFailure ==
    /\ Len(fo_executed) <= Len(stages)
    /\ \A j \in 1..Len(fo_executed) :
          /\ fo_executed[j].stage = stages[j]
          /\ j < Len(fo_executed) => fo_executed[j].outcome = "ok"
    /\ (fo_executed # <<>> /\ fo_executed[Len(fo_executed)].outcome # "ok")
          => /\ fo_pc = 0
             /\ ~fo_result.success
             /\ fo_result.stage = stages[Len(fo_executed)]
    /\ fo_result.success
          => /\ Len(fo_executed) = Len(stages)
             /\ \A j \in 1..Len(fo_executed) : fo_executed[j].outcome = "ok"
             /\ fo_result = PipelineResult("reporting", TRUE, "completed")

\* a call stopped at a stage that raised, after earlier stages succeeded
C22_Witness ==
    /\ fo_pc = 0
    /\ Len(fo_executed) = 5
    /\ fo_executed[5].outcome = "raised"
    /\ fo_result = PipelineResult("error_solving", FALSE, "error")

----------------------------------------------------------------------------
(* Properties of failed suggestions (SpecBatch) *)

\* apply_improvement returns False for the suggestion
FailsToApply(s) == ~apply_improvement(EngineState, s).ok

\* C23: implement_improvements removes from the backlog only suggestions it
\* applied in that call: every LOW suggestion whose application fails is in the
\* backlog afterwards as often as before, wherever it stands in the batch.
C23_FailedStay ==
    [][ImplementStep =>
          \A j \in 1..Len(optimization_suggestions) :
              LET s == optimization_suggestions[j]
              IN (IsLowRisk(s) /\ FailsToApply(s))
                    => Count(optimization_suggestions', s) = Count(optimization_suggestions, s)]_vars

----------------------------------------------------------------------------
(* Properties of repeated cycles (SpecDrain) *)

\* the last cycle attempted the suggestion: it reported it as applied or failed
Attempted(s) ==
    /\ ci_call.op = "implement_improvements"
    /\ \E i \in 1..Len(ci_call.details) : ci_call.details[i].title = s.title

\* C28: under repeated implement_improvements calls with no new suggestions in
\* between, every LOW suggestion of the backlog is eventually attempted, even
\* when LOW suggestions ahead of it fail on every attempt.
C28_EveryLowAttempted ==
    \A s \in DrainInputs :
        (ci_call.op = "implement_improvements" /\ InList(optimization_suggestions, s))
            ~> Attempted(s)

----------------------------------------------------------------------------
(* Properties of the set of transfers (SpecTransfer) *)

\* C24: the transfers change only through request_transfer, which adds one:
\* share_experience and process create none, and no call deletes one.
C24_OnlyRequestsCreate ==
    [][/\ Len(knowledge_transfers') >= Len(knowledge_transfers)
       /\ Len(knowledge_transfers') # Len(knowledge_transfers)
             => /\ co_call'.op = "request_knowledge_transfer"
                /\ Len(knowledge_transfers') = Len(knowledge_transfers) + 1]_vars

----------------------------------------------------------------------------
(* Properties of a failed share (SpecTransfer) *)

\* C25: whenever share_experience returns false no effect of the call is
\* visible: no experience was appended, no profile changed, no transfer or
\* collaboration edge was added and no counter moved.
C25_FailedShareLeavesNothing ==
    [][(co_call'.op = "share_learning_experience" /\ co_call'.ret = 0)
          => UNCHANGED <<learning_experiences, agent_profiles, knowledge_transfers,
                         collaboration_network, learning_metrics>>]_vars

----------------------------------------------------------------------------
(* Properties of a request that names no source (SpecTransfer) *)

\* C26: an agent's request for knowledge without a named source agent never
\* raises: it returns a transfer id or None, also when the only
\* recommendations are pattern-based ones.
C26_RequestNeverRaises ==
    co_call.op = "request_knowledge" => ~co_call.raised

----------------------------------------------------------------------------
(* Properties of two concurrent shares (SpecTasks) *)

\* the coordinator after the two experiences of the tasks were shared one
\* call after the other, first before second
SerialOrder(first, second) ==
    share_learning_experience(
        share_learning_experience(co_tasks[1].start, co_tasks[first].experience),
        co_tasks[second].experience)

BothReturned == Len(co_tasks) = 2 /\ \A i \in DOMAIN co_tasks : co_tasks[i].pc = "returned"

\* C27: when two share_experience calls for the same registered agent run
\* concurrently, the agent's final profile is the one of one of the two
\* serial orders, its experience_count has risen by exactly 2 and both
\* experiences are in the log.
C27_ConcurrentSharesSerialize ==
    BothReturned =>
        /\ \E o \in {<<1, 2>>, <<2, 1>>} :
              /\ agent_profiles["A"] = SerialOrder(o[1], o[2]).agent_profiles["A"]
              /\ learning_experiences = SerialOrder(o[1], o[2]).learning_experiences
        /\ agent_profiles["A"].experience_count
             = co_tasks[1].start.agent_profiles["A"].experience_count + 2
        /\ Len(learning_experiences) = Len(co_tasks[1].start.learning_experiences) + 2

\* both tasks returned, the second ran its first segment before the first,
\* and the two serial orders give different profiles
C27_Witness ==
    /\ BothReturned
    /\ agent_profiles["A"] = SerialOrder(2, 1).agent_profiles["A"]
    /\ agent_profiles["A"] # SerialOrder(1, 2).agent_profiles["A"]

----------------------------------------------------------------------------
(* Properties of a transfer whose target was removed (SpecRemoved) *)

\* the pending transfer a call is about names a target without a profile;
\* transfers are requested for registered targets only, so the target was
\* removed by cleanup_inactive_agents
TargetRemoved(transfers, profiles, id) ==
    /\ id \in DOMAIN transfers
    /\ transfers[id].to_agent \notin DOMAIN profiles

\* C29: when cleanup_inactive_agents has removed the target of a pending
\* transfer, a later process(id, accept=true) returns success, does not
\* re-create the removed profile and adds the capability to no profile.
C29_AcceptForRemovedTarget ==
    [][(/\ co_call'.op = "process_knowledge_transfer"
        /\ co_call'.accept
        /\ TargetRemoved(knowledge_transfers, agent_profiles, co_call'.transfer_id)
        /\ knowledge_transfers[co_call'.transfer_id].status = "pending")
          => /\ co_call'.ret = 1
             /\ knowledge_transfers'[co_call'.transfer_id].status = "accepted"
             /\ DOMAIN agent_profiles' = DOMAIN agent_profiles
             /\ \A a \in DOMAIN agent_profiles :
                   agent_profiles'[a].capabilities = agent_profiles[a].capabilities]_vars

\* the transfer to the removed B was accepted while A, its source, is
\* registered, and the call returned True
C29_Witness ==
    /\ co_call.op = "process_knowledge_transfer"
    /\ co_call.accept
    /\ co_call.ret = 1
    /\ TargetRemoved(knowledge_transfers, agent_profiles, co_call.transfer_id)
    /\ knowledge_transfers[co_call.transfer_id].status = "accepted"
    /\ "A" \in DOMAIN agent_profiles
    /\ learning_metrics.successful_transfers = 1

----------------------------------------------------------------------------
(* Properties of a repeated registration (SpecRemoved) *)

\* the capabilities an agent declares when it registers
Declared(agent_id) == (CHOOSE r \in Registrations : r[1] = agent_id)[2]

\* the experiences of the log that an agent shared
SharedBy(agent_id) == SelectSeq(learning_experiences, LAMBDA e : e.agent_id = agent_id)

\* C30: register_agent on an id that is already registered replaces the
\* profile with a fresh one (reputation 0.5, experience_count 0, success_rate
\* 0, no specializations, capabilities as newly declared), the experiences and
\* transfers recorded before remain, and the next experience the agent
\* shares is treated as its first: it sets success_rate and
\* average_confidence directly.
C30_RegisterAgainResets ==
    [][/\ (co_call'.op = "register_agent" /\ co_call'.replaced /\ co_now' = co_now)
          => /\ agent_profiles'[co_call'.from_agent]
                   = [capabilities |-> Declared(co_call'.from_agent), experience_count |-> 0,
                      success_rate |-> 0, average_confidence |-> 0, specializations |-> <<>>,
                      last_active |-> co_now, reputation_score |-> 500]
             /\ learning_experiences' = learning_experiences
             /\ knowledge_transfers' = knowledge_transfers
       /\ \A a \in DOMAIN agent_profiles :
            (/\ co_call'.op = "share_learning_experience"
             /\ Len(learning_experiences') = Len(learning_experiences) + 1
             /\ learning_experiences'[Len(learning_experiences')].agent_id = a
             /\ agent_profiles[a].experience_count = 0)
               => LET e == learning_experiences'[Len(learning_experiences')]
                  IN /\ agent_profiles'[a].experience_count = 1
                     /\ agent_profiles'[a].success_rate = IF e.success THEN One ELSE 0
                     /\ agent_profiles'[a].average_confidence = e.confidence]_vars

\* B registered again after it had shared an experience and received A's
\* testing knowledge: the profile is fresh, the experience and the accepted
\* transfer are still recorded
C30_Witness ==
    /\ co_call.op = "register_agent"
    /\ co_call.replaced
    /\ co_call.from_agent = "B"
    /\ agent_profiles["B"].experience_count = 0
    /\ agent_profiles["B"].capabilities = <<"code_review">>
    /\ SharedBy("B") # <<>>
    /\ \E id \in DOMAIN knowledge_transfers :
          /\ knowledge_transfers[id].to_agent = "B"
          /\ knowledge_transfers[id].status = "accepted"

====
